---- MODULE Spec2Model ----
(***************************************************************************)
(* A model of the natural-language-to-SQL request pipeline of              *)
(* chatalyst-ai: VannaAgent (src/agent/vanna_agent.py), its conversation   *)
(* history, SchemaManager (src/database/schema_manager.py), SQLValidator   *)
(* (src/validation/sql_validator.py) and the callers in src/ui.            *)
(*                                                                         *)
(* Python strings are sequences of units: a unit is a TLA+ string standing *)
(* for a word, a punctuation mark or one blank " ".  Python values that    *)
(* may be None or of another type are records [t |-> type, v |-> units].   *)
(* Python dicts are records; a key that is missing is a field that is      *)
(* missing.                                                                *)
(***************************************************************************)
EXTENDS Integers, Sequences, FiniteSets, TLC

VARIABLES
    agent,      \* the VannaAgent object: its attributes and those of its components
    clock,      \* the value datetime.now() returns next
    call,       \* the last call made on the agent: its name and arguments
    result,     \* what that call returned
    log,        \* the calls that call made to the oracle, validator, database
    pc,         \* "returned" when a call has just returned, "idle" once the caller went on
    ncalls      \* how many calls were made so far

vars == <<agent, clock, call, result, log, pc, ncalls>>

-----------------------------------------------------------------------------
(* Bounds of the model *)

\* calls made on the agent in one behaviour
MaxCalls == 2
\* the longest saved conversation (in question/answer pairs) that is loaded
MaxLoad == 21
\* the number of sample queries the training source yields
MaxQueries == 14

-----------------------------------------------------------------------------
(* Python values *)

PyNone == [t |-> "NoneType", v |-> <<>>]
PyStr(s) == [t |-> "str", v |-> s]
PyTime(n) == [t |-> "datetime", v |-> <<n>>]
PyNum == [t |-> "int", v |-> <<"7">>]
DataFrame(rows) == [t |-> "DataFrame", v |-> rows]
PyDict(d) == [t |-> "dict", v |-> d]
Raised(e) == [t |-> "raise", v |-> <<e>>]

\* bool(x): None, "" and an empty dict are false
Truthy(x) == x.t # "NoneType" /\ ~(x.t \in {"str", "dict"} /\ x.v = <<>>)

\* str(x)
py_str(x) == IF x.t = "NoneType" THEN PyStr(<<"None">>) ELSE PyStr(x.v)

\* d.get(k): None when the key is missing
Get(d, k) == IF k \in DOMAIN d THEN d[k] ELSE PyNone

Whitespace == {" "}

RECURSIVE lstrip(_)
lstrip(s) ==
    IF s # <<>> /\ Head(s) \in Whitespace THEN lstrip(Tail(s)) ELSE s

RECURSIVE rstrip(_)
rstrip(s) ==
    IF s # <<>> /\ s[Len(s)] \in Whitespace THEN rstrip(SubSeq(s, 1, Len(s) - 1)) ELSE s

\* s.strip()
strip(s) == rstrip(lstrip(s))

-----------------------------------------------------------------------------
(* VannaAgent: construction and conversation history *)

max_history_length == 20

\* VannaAgent.__init__: the attributes of a new agent and of its components
\* (db_connector.connection, schema_manager._schema_cache)
VannaAgent(config) ==
    [ config |-> config,
      connection |-> PyNone,
      _schema_cache |-> PyNone,
      vanna_instance |-> PyNone,
      initialized |-> FALSE,
      conversation_history |-> <<>>,
      max_history_length |-> max_history_length ]

\* a clear that leaves the newest entry in the history
ClearKeepsNewest(a) ==
    [a EXCEPT !.conversation_history =
        IF @ = <<>> THEN <<>> ELSE <<@[Len(@)]>>]

\* clear_conversation
clear_conversation(a) == [a EXCEPT !.conversation_history = <<>>]

\* the entries of the history whose type is "question"
Questions(h) == SelectSeq(h, LAMBDA item : Get(item, "type") = PyStr(<<"question">>))

\* get_conversation_summary
get_conversation_summary(a) ==
    IF a.conversation_history = <<>>
    THEN [total_questions |-> 0, last_question_time |-> PyNone]
    ELSE LET questions == Questions(a.conversation_history)
         IN [ total_questions |-> Len(questions),
              last_question_time |->
                  IF questions # <<>>
                  THEN Get(questions[Len(questions)], "timestamp")
                  ELSE PyNone ]

\* a search that looks at the most recent entry only
LastQuestionNoSkip(h, i) ==
    IF i = 0 THEN PyNone
    ELSE IF Get(h[i], "type") = PyStr(<<"question">>)
            /\ Truthy(Get(h[i], "processed_question"))
         THEN h[i].processed_question
         ELSE PyNone

\* the loop of _get_last_question over reversed(history), at entry i
RECURSIVE LastQuestionFrom(_, _)
LastQuestionFrom(h, i) ==
    IF i = 0 THEN PyNone
    ELSE IF Get(h[i], "type") = PyStr(<<"question">>)
            /\ Truthy(Get(h[i], "processed_question"))
         THEN h[i].processed_question
         ELSE LastQuestionFrom(h, i - 1)

\* _get_last_question
_get_last_question(a) ==
    LastQuestionFrom(a.conversation_history, Len(a.conversation_history))

\* lst[:n] in place of lst[-n:]: the cleanup keeps the oldest entries
FirstN(lst, n) == IF Len(lst) <= n THEN lst ELSE SubSeq(lst, 1, n)

\* lst[-n:] for n > 0
LastN(lst, n) == IF Len(lst) <= n THEN lst ELSE SubSeq(lst, Len(lst) - n + 1, Len(lst))

\* entry["timestamp"] = datetime.now()
Stamped(entry, now) ==
    [k \in DOMAIN entry \cup {"timestamp"} |->
        IF k = "timestamp" THEN PyTime(now) ELSE entry[k]]

\* the cleanup of _add_to_conversation_history
Cleanup(h, n) == IF Len(h) > n THEN LastN(h, n) ELSE h

\* _add_to_conversation_history
_add_to_conversation_history(a, entry, now) ==
    [a EXCEPT !.conversation_history =
        Cleanup(Append(a.conversation_history, Stamped(entry, now)),
                a.max_history_length)]

-----------------------------------------------------------------------------
(* load_conversation of the UI: the agent's history is rebuilt from a saved *)
(* UI history                                                              *)

\* the loop of load_conversation over the UI history, from entry i on;
\* st is [a, now, current_question]
RECURSIVE LoadLoop(_, _, _)
LoadLoop(ui, i, st) ==
    IF i > Len(ui) THEN st
    ELSE LET entry == ui[i]
         IN IF entry.role = "user"
            THEN LoadLoop(ui, i + 1, [st EXCEPT !.current_question = entry.content])
            ELSE IF entry.role = "assistant" /\ Truthy(st.current_question)
                    /\ "sql" \in DOMAIN entry.metadata
            THEN LoadLoop(ui, i + 1,
                    [ a |-> _add_to_conversation_history(st.a,
                                [ type |-> PyStr(<<"question">>),
                                  original_question |-> st.current_question,
                                  processed_question |-> st.current_question,
                                  sql |-> entry.metadata.sql,
                                  context_used |-> FALSE ],
                                st.now),
                      now |-> st.now + 1,
                      current_question |-> PyNone ])
            ELSE LoadLoop(ui, i + 1, st)

\* load_conversation, the part that acts on the agent
load_conversation(a, ui, now) ==
    LoadLoop(ui, 1, [a |-> clear_conversation(a), now |-> now, current_question |-> PyNone])

-----------------------------------------------------------------------------
(* String operations on unit sequences.  Positions are Python's: the first  *)
(* unit is at 0 and find returns -1 when there is no match.                *)

\* s.lower(), unit by unit
LowerUnit(u) ==
    CASE u = "SELECT" -> "select" [] u = "FROM" -> "from" [] u = "WHERE" -> "where"
      [] u = "AS" -> "as" [] u = "ORDER" -> "order" [] u = "BY" -> "by"
      [] u = "WITH" -> "with" [] u = "AND" -> "and" [] u = "Revenue" -> "revenue"
      [] u = "Conversion" -> "conversion"
      [] OTHER -> u

lower(s) == [i \in 1..Len(s) |-> LowerUnit(s[i])]

\* the units of the model that hold a shorter word as a substring
SubstringPairs ==
    { <<"participant_count", "count">>, <<"errors", "error">>,
      <<"selected", "select">> }

HasSub(u, w) == u = w \/ <<u, w>> \in SubstringPairs

\* whether pat occurs in s at position i
Match(s, i, pat) ==
    /\ i >= 0
    /\ i + Len(pat) <= Len(s)
    /\ IF Len(pat) = 1 THEN HasSub(s[i + 1], pat[1])
       ELSE SubSeq(s, i + 1, i + Len(pat)) = pat

\* pat in s
Contains(s, pat) == \E i \in 0..Len(s) : Match(s, i, pat)

\* s.find(pat, start)
find(s, pat, start) ==
    IF \E i \in start..Len(s) : Match(s, i, pat)
    THEN CHOOSE i \in start..Len(s) :
            Match(s, i, pat) /\ \A j \in start..(i - 1) : ~Match(s, j, pat)
    ELSE -1

\* s[i:j] for 0 <= i, 0 <= j
Slice(s, i, j) ==
    IF i >= Len(s) \/ j <= i THEN <<>>
    ELSE SubSeq(s, i + 1, IF j > Len(s) THEN Len(s) ELSE j)

\* s.split(sep)
RECURSIVE split(_, _)
split(s, sep) ==
    LET p == find(s, sep, 0)
    IN IF p = -1 THEN <<s>>
       ELSE <<Slice(s, 0, p)>> \o split(Slice(s, p + Len(sep), Len(s)), sep)

\* s.split(): the maximal runs of units that are not blank
RECURSIVE split_ws(_)
split_ws(s) ==
    LET t == lstrip(s)
    IN IF t = <<>> THEN <<>>
       ELSE LET p == find(t, <<" ">>, 0)
            IN IF p = -1 THEN <<t>>
               ELSE <<Slice(t, 0, p)>> \o split_ws(Slice(t, p, Len(t)))

-----------------------------------------------------------------------------
(* SchemaManager *)

\* one call of an agent to a collaborator, with the agent's readiness then
Ev(op, args, a) == [op |-> op, args |-> args, ready |-> a.initialized]

\* the same, with what the collaborator answered
Answered(op, args, ret, a) == [op |-> op, args |-> args, ret |-> ret, ready |-> a.initialized]

\* a schema manager without its cache: every call asks the database
GetSchemaInfoUncached(a, fetched) ==
    IF fetched.t = "raise"
    THEN [ a |-> a, ret |-> PyNone, exc |-> fetched,
           log |-> <<Ev("db.get_schema_info", <<>>, a)>> ]
    ELSE [ a |-> a, ret |-> fetched, exc |-> PyNone,
           log |-> <<Ev("db.get_schema_info", <<>>, a)>> ]

\* a get_schema_info that keeps a snapshot only when it holds a table
GetSchemaInfoRefetchesEmpty(a, fetched) ==
    IF ~Truthy(a._schema_cache)
    THEN IF fetched.t = "raise"
         THEN [ a |-> a, ret |-> PyNone, exc |-> fetched,
                log |-> <<Ev("db.get_schema_info", <<>>, a)>> ]
         ELSE [ a |-> [a EXCEPT !._schema_cache = fetched],
                ret |-> fetched, exc |-> PyNone,
                log |-> <<Ev("db.get_schema_info", <<>>, a)>> ]
    ELSE [a |-> a, ret |-> a._schema_cache, exc |-> PyNone, log |-> <<>>]

\* SchemaManager.get_schema_info; fetched is what db_connector.get_schema_info()
\* returns or raises when it is called
get_schema_info(a, fetched) ==
    IF a._schema_cache = PyNone
    THEN IF fetched.t = "raise"
         THEN [ a |-> a, ret |-> PyNone, exc |-> fetched,
                log |-> <<Ev("db.get_schema_info", <<>>, a)>> ]
         ELSE [ a |-> [a EXCEPT !._schema_cache = fetched],
                ret |-> fetched, exc |-> PyNone,
                log |-> <<Ev("db.get_schema_info", <<>>, a)>> ]
    ELSE [a |-> a, ret |-> a._schema_cache, exc |-> PyNone, log |-> <<>>]

\* SchemaManager.get_all_column_names: the loop over the tables and their columns
ColumnNames(schema_info) ==
    UNION { { schema_info.v[i].columns[j].column_name :
                j \in 1..Len(schema_info.v[i].columns) } :
            i \in 1..Len(schema_info.v) }

\* get_all_column_names, from what get_schema_info handed back
ColumnsOf(got) ==
    IF got.exc # PyNone THEN got
    ELSE [got EXCEPT !.ret = ColumnNames(got.ret)]

\* SchemaManager.get_all_column_names
get_all_column_names(a, fetched) == ColumnsOf(get_schema_info(a, fetched))

-----------------------------------------------------------------------------
(* SQLValidator *)

\* SQLValidator.__init__: the denylist
_invalid_patterns ==
    { <<"conversion_rate">>, <<"revenue">>, <<"clicks">>, <<"impressions">>,
      <<"created_by">>, <<"user_id">>, <<"tags">>, <<"priority">>, <<"budget">>,
      <<"success_rate">>, <<"participant_count">> }

\* the denylist of _validate_cte_query
strict_invalid_patterns ==
    { <<"clicks">>, <<"impressions">>, <<"ctr">>, <<"roas">>, <<"created_by">>,
      <<"user_id">>, <<"tags">>, <<"priority">>, <<"budget">>,
      <<"participant_count">> }

\* _is_basic_sql_valid
_is_basic_sql_valid(sql) ==
    IF ~Truthy(sql) \/ sql.t # "str" THEN FALSE
    ELSE LET sql_lower == strip(lower(sql.v))
         IN \E keyword \in {<<"select">>, <<"insert">>, <<"update">>, <<"delete">>} :
                Contains(sql_lower, keyword)

\* the list error_indicators of _contains_error_message
error_indicators ==
    { <<"U+7121U+6CD5", "U+6839U+64DA...">>, <<"sorry">>, <<"error">>, <<"unable">>,
      <<"cannot">>, <<"U+7121U+6CD5">>, <<"U+5931U+6557">> }

\* a check that knows one indicator only
ContainsErrorWordOnly(sql) == Contains(strip(lower(sql.v)), <<"error">>)

\* _contains_error_message
_contains_error_message(sql) ==
    LET sql_lower == strip(lower(sql.v))
    IN \E indicator \in error_indicators : Contains(sql_lower, indicator)

\* the loop of _extract_select_aliases over the parts of the SELECT clause
RECURSIVE AliasesOf(_, _)
AliasesOf(parts, i) ==
    IF i > Len(parts) THEN {}
    ELSE LET part == strip(parts[i])
             pieces == split(part, <<" ", "as", " ">>)
             words == split_ws(part)
             here ==
                 IF Contains(part, <<" ", "as", " ">>)
                 THEN {strip(pieces[Len(pieces)])}
                 ELSE IF Contains(part, <<" ">>)
                         /\ ~\E func \in {<<"count">>, <<"sum">>, <<"avg">>,
                                          <<"round">>, <<"nullif">>} :
                               Contains(part, func)
                         /\ Len(words) >= 2
                 THEN {words[Len(words)]}
                 ELSE {}
         IN here \cup AliasesOf(parts, i + 1)

\* _extract_select_aliases
_extract_select_aliases(sql) ==
    LET sql_lower == lower(sql.v)
        select_start == find(sql_lower, <<"select">>, 0)
        from_start == find(sql_lower, <<"from">>, 0)
    IN IF select_start # -1 /\ from_start # -1
       THEN LET select_clause ==
                    strip(Slice(sql_lower, select_start + Len(<<"select">>), from_start))
            IN AliasesOf(split(select_clause, <<",">>), 1)
       ELSE {}

\* the positions _is_invalid_column_usage collects: every occurrence of pattern
pattern_positions(sql_lower, pattern) ==
    { pos \in 0..Len(sql_lower) : Match(sql_lower, pos, pattern) }

\* a usage check without the ORDER BY exemption
InvalidUsageNoOrderBy(sql_lower, pattern, select_aliases) ==
    IF pattern \in select_aliases THEN FALSE
    ELSE \E pos \in pattern_positions(sql_lower, pattern) :
            ~(find(sql_lower, <<"select">>, 0) # -1 /\ find(sql_lower, <<"from">>, 0) # -1
                /\ find(sql_lower, <<"select">>, 0) < pos
                /\ pos < find(sql_lower, <<"from">>, 0))

\* _is_invalid_column_usage
_is_invalid_column_usage(sql_lower, pattern, select_aliases) ==
    IF pattern \in select_aliases THEN FALSE
    ELSE LET order_by_pos == find(sql_lower, <<"order", " ", "by">>, 0)
             select_pos == find(sql_lower, <<"select">>, 0)
             from_pos == find(sql_lower, <<"from">>, 0)
         IN \E pos \in pattern_positions(sql_lower, pattern) :
                /\ ~(order_by_pos # -1 /\ pos > order_by_pos)
                /\ ~(select_pos # -1 /\ from_pos # -1
                        /\ select_pos < pos /\ pos < from_pos)


\* the units a regular expression's \w does not match
NonWordUnits == {" ", ",", ".", "(", ")", "=", "<", ">", ">=", "<=", "<>", "*", "/", ";"}

\* the units that begin with one of [=<>]
ComparisonUnits == {"=", "<", ">", ">=", "<=", "<>"}

\* the first position from i on that holds no blank (regex \s*)
RECURSIVE SkipBlanks(_, _)
SkipBlanks(s, i) ==
    IF i < Len(s) /\ s[i + 1] \in Whitespace THEN SkipBlanks(s, i + 1) ELSE i

\* whether the unit at position i is unit u
At(s, i, u) == i >= 0 /\ i < Len(s) /\ s[i + 1] = u

\* whether a word (regex \w+) ends at position i
WordAt(s, i) == i >= 0 /\ i < Len(s) /\ s[i + 1] \notin NonWordUnits

\* regex  \w+\.{pattern}\b  matched at position i
QualifiedAt(s, i, pattern) ==
    /\ WordAt(s, i)
    /\ At(s, i + 1, ".")
    /\ At(s, i + 2, pattern[1])
    /\ ~WordAt(s, i + 3)

\* regex  {keyword}\s+{pattern}\s*[=<>]  matched at position i
ComparedAt(s, i, keyword, pattern) ==
    /\ At(s, i, keyword)
    /\ i + 1 < Len(s) /\ s[i + 2] \in Whitespace
    /\ LET p == SkipBlanks(s, i + 1)
           q == SkipBlanks(s, p + 1)
       IN At(s, p, pattern[1]) /\ q < Len(s) /\ s[q + 1] \in ComparisonUnits

\* regex  on\s+\w+\.{pattern}\s*=  matched at position i
JoinedAt(s, i, pattern) ==
    /\ At(s, i, "on")
    /\ i + 1 < Len(s) /\ s[i + 2] \in Whitespace
    /\ LET p == SkipBlanks(s, i + 1)
           q == SkipBlanks(s, p + 3)
       IN WordAt(s, p) /\ At(s, p + 1, ".") /\ At(s, p + 2, pattern[1])
          /\ At(s, q, "=")

\* _is_likely_column_reference
_is_likely_column_reference(sql_lower, pattern) ==
    \E i \in 0..Len(sql_lower) :
        \/ QualifiedAt(sql_lower, i, pattern)
        \/ ComparedAt(sql_lower, i, "where", pattern)
        \/ ComparedAt(sql_lower, i, "and", pattern)
        \/ ComparedAt(sql_lower, i, "or", pattern)
        \/ JoinedAt(sql_lower, i, pattern)

\* the first name of order (the iteration order of the set) that is in flagged
FirstFlagged(order, flagged) ==
    IF \E i \in 1..Len(order) : order[i] \in flagged
    THEN LET i == CHOOSE k \in 1..Len(order) :
                    order[k] \in flagged /\ \A j \in 1..(k - 1) : order[j] \notin flagged
         IN PyStr(<<"Column '">> \o order[i] \o <<"' does not exist in schema">>)
    ELSE PyNone

\* the lower-cased column names
LowerAll(all_columns) == { lower(col) : col \in all_columns }

\* the loop of _validate_cte_query, from what get_all_column_names handed back
CteChecked(got, sql_lower, order) ==
    IF got.exc # PyNone THEN got
    ELSE [got EXCEPT !.ret =
            FirstFlagged(order,
                { pattern \in strict_invalid_patterns :
                    /\ Contains(sql_lower, pattern)
                    /\ pattern \notin LowerAll(got.ret)
                    /\ _is_likely_column_reference(sql_lower, pattern) })]

\* _validate_cte_query
_validate_cte_query(a, sql_lower, fetched, order) ==
    CteChecked(get_all_column_names(a, fetched), sql_lower, order)

\* the strict rule of _check_column_validity for one denylisted name
StrictFlagged(sql, sql_lower, pattern, all_columns_lower) ==
    /\ Contains(sql_lower, pattern)
    /\ pattern \notin all_columns_lower
    /\ pattern \notin _extract_select_aliases(sql)
    /\ _is_invalid_column_usage(sql_lower, pattern, _extract_select_aliases(sql))

\* the loop of _check_column_validity, from what get_all_column_names handed back
ColumnsChecked(got, sql, sql_lower, order) ==
    IF got.exc # PyNone THEN got
    ELSE [got EXCEPT !.ret =
            FirstFlagged(order,
                { pattern \in _invalid_patterns :
                    StrictFlagged(sql, sql_lower, pattern, LowerAll(got.ret)) })]

\* _check_column_validity
_check_column_validity(a, sql, fetched, order) ==
    IF Contains(lower(sql.v), <<"with", " ">>) /\ Contains(lower(sql.v), <<"as", " ", "(">>)
    THEN _validate_cte_query(a, lower(sql.v), fetched, order)
    ELSE ColumnsChecked(get_all_column_names(a, fetched), sql, lower(sql.v), order)

\* the tuple validate_sql returns
Verdict(is_valid, error_message) == [is_valid |-> is_valid, error_message |-> error_message]

\* a validate_sql without its except clause: the exception escapes
JudgedReraise(checked) ==
    IF checked.exc # PyNone THEN checked
    ELSE IF Truthy(checked.ret)
    THEN [checked EXCEPT !.ret = Verdict(FALSE, checked.ret)]
    ELSE [checked EXCEPT !.ret = Verdict(TRUE, PyNone)]

\* validate_sql, from what _check_column_validity handed back: an exception is
\* caught and the SQL allowed
Judged(checked) ==
    IF checked.exc # PyNone
    THEN [checked EXCEPT !.ret = Verdict(TRUE, PyNone), !.exc = PyNone]
    ELSE IF Truthy(checked.ret)
    THEN [checked EXCEPT !.ret = Verdict(FALSE, checked.ret)]
    ELSE [checked EXCEPT !.ret = Verdict(TRUE, PyNone)]

\* a validate_sql that looks for the error message before the structure
ValidateSqlEchoFirst(a, sql, question, fetched, order) ==
    IF Truthy(sql) /\ sql.t = "str" /\ _contains_error_message(sql)
    THEN [ a |-> a, exc |-> PyNone, log |-> <<>>,
           ret |-> Verdict(FALSE, PyStr(<<"AI returned error message instead of SQL">>)) ]
    ELSE IF ~_is_basic_sql_valid(sql)
    THEN [ a |-> a, exc |-> PyNone, log |-> <<>>,
           ret |-> Verdict(FALSE, PyStr(<<"Invalid SQL structure">>)) ]
    ELSE Judged(_check_column_validity(a, sql, fetched, order))

\* validate_sql
validate_sql(a, sql, question, fetched, order) ==
    IF ~_is_basic_sql_valid(sql)
    THEN [ a |-> a, exc |-> PyNone, log |-> <<>>,
           ret |-> Verdict(FALSE, PyStr(<<"Invalid SQL structure">>)) ]
    ELSE IF _contains_error_message(sql)
    THEN [ a |-> a, exc |-> PyNone, log |-> <<>>,
           ret |-> Verdict(FALSE, PyStr(<<"AI returned error message instead of SQL">>)) ]
    ELSE Judged(_check_column_validity(a, sql, fetched, order))


-----------------------------------------------------------------------------
(* VannaAgent.initialize and its steps.  env holds what the collaborators   *)
(* answer during the call: the oracle, the database, the file system.      *)

\* an outcome of a step: the agent after it, what it returned, the exception it
\* let escape (PyNone: none) and the calls it made
Outcome(a, ret, exc, calls) == [a |-> a, ret |-> ret, exc |-> exc, log |-> calls]

\* _validate_config
_validate_config(a) == a.config.api_key

\* _create_vanna_instance
_create_vanna_instance(a, env) ==
    IF env.create.t = "raise"
    THEN Outcome(a, FALSE, PyNone, <<Ev("MyVanna", <<>>, a)>>)
    ELSE Outcome([a EXCEPT !.vanna_instance = PyStr(<<"MyVanna">>)], TRUE, PyNone,
                 <<Ev("MyVanna", <<>>, a)>>)

\* _connect_database
_connect_database(a, env) ==
    IF ~env.connect
    THEN Outcome([a EXCEPT !.connection = PyNone], FALSE, PyNone,
                 <<Ev("db.connect", <<>>, a)>>)
    ELSE Outcome([a EXCEPT !.connection = PyStr(<<"open">>)],
                 env.connect_to_postgres.t # "raise", PyNone,
                 <<Ev("db.connect", <<>>, a), Ev("connect_to_postgres", <<>>, a)>>)

\* a decision that takes an empty embeddings directory for embeddings
ShouldRetrainExistsOnly(a, embeddings) ==
    IF a.config.force_retrain THEN Outcome(a, TRUE, PyNone, <<>>)
    ELSE IF embeddings \in {"nonempty", "empty", "unreadable"}
    THEN Outcome(a, FALSE, PyNone, <<>>)
    ELSE Outcome(a, TRUE, PyNone, <<>>)

\* _should_retrain; embeddings is the state of the persist directory
_should_retrain(a, embeddings) ==
    IF a.config.force_retrain THEN Outcome(a, TRUE, PyNone, <<>>)
    ELSE IF embeddings = "unreadable"
    THEN Outcome(a, FALSE, Raised("NotADirectoryError"), <<>>)
    ELSE IF embeddings = "nonempty" THEN Outcome(a, FALSE, PyNone, <<>>)
    ELSE Outcome(a, TRUE, PyNone, <<>>)

\* _train_with_essential_prompts: one train call, whose exception is caught
_train_with_essential_prompts(a, env) ==
    Outcome(a, PyNone, PyNone, <<Ev("train", <<"documentation", "combined_prompt">>, a)>>)

core_tables == {"experiments", "experiment_groups", "experiment_daily_metrics", "shops"}

\* the DDL loop of _train_with_expanded_schema from table i on: the train calls
\* made; the loop ends at the first call that raises
RECURSIVE DdlLoop(_, _, _, _)
DdlLoop(a, schema_info, i, env) ==
    IF i > Len(schema_info.v) THEN <<>>
    ELSE IF schema_info.v[i].table \in core_tables
    THEN <<Ev("train", <<"ddl", schema_info.v[i].table>>, a)>>
            \o (IF env.train_fail = "ddl" THEN <<>>
                ELSE DdlLoop(a, schema_info, i + 1, env))
    ELSE DdlLoop(a, schema_info, i + 1, env)

\* _train_with_expanded_schema
_train_with_expanded_schema(a, env) ==
    LET got == get_schema_info(a, env.train_fetched)
    IN IF got.exc # PyNone THEN Outcome(got.a, PyNone, PyNone, got.log)
       ELSE Outcome(got.a, PyNone, PyNone, got.log \o DdlLoop(got.a, got.ret, 1, env))

\* the keywords of _load_critical_training_data
critical_keywords ==
    { <<"U+8F49U+63DBU+7387">>, <<"conversion">>, <<"U+50F9U+683CU+6E2CU+8A66">>,
      <<"price-test">> }

\* the filter of _load_critical_training_data
critical_queries(queries) ==
    SelectSeq(queries, LAMBDA query :
        \E keyword \in critical_keywords : Contains(lower(query.question), keyword))

\* critical_queries[:10]
critical_limit == 10

\* the train loop of _load_critical_training_data from query i on
RECURSIVE QueryLoop(_, _, _, _)
QueryLoop(a, qs, i, env) ==
    IF i > Len(qs) THEN <<>>
    ELSE <<Ev("train", <<"sql", qs[i].question, qs[i].sql>>, a)>>
            \o (IF env.train_fail = "sql" THEN <<>> ELSE QueryLoop(a, qs, i + 1, env))

\* a loader that trains with every critical query, however many there are
LoadCriticalUnlimited(a, env) ==
    Outcome(a, PyNone, PyNone, QueryLoop(a, critical_queries(env.queries), 1, env))

\* _load_critical_training_data
_load_critical_training_data(a, env) ==
    Outcome(a, PyNone, PyNone,
            QueryLoop(a, Slice(critical_queries(env.queries), 0, critical_limit), 1, env))

\* a training whose steps do not catch: the first failing step ends it
TrainSystemStopsAtFailure(a, env) ==
    LET should == _should_retrain(a, env.embeddings)
    IN IF should.exc # PyNone \/ ~should.ret THEN Outcome(a, PyNone, PyNone, <<>>)
       ELSE IF env.train_fail = "documentation"
       THEN _train_with_essential_prompts(a, env)
       ELSE Outcome(_train_with_expanded_schema(a, env).a, PyNone, PyNone,
                    _train_with_essential_prompts(a, env).log
                        \o _train_with_expanded_schema(a, env).log
                        \o (IF a.config.load_training_on_startup
                               /\ env.train_fail # "ddl"
                               /\ env.train_fetched.t # "raise"
                            THEN _load_critical_training_data(a, env).log
                            ELSE <<>>))

\* _train_system
_train_system(a, env) ==
    LET should == _should_retrain(a, env.embeddings)
    IN IF should.exc # PyNone \/ ~should.ret THEN Outcome(a, PyNone, PyNone, <<>>)
       ELSE LET p == _train_with_essential_prompts(a, env)
                s == _train_with_expanded_schema(p.a, env)
                c == IF a.config.load_training_on_startup
                     THEN _load_critical_training_data(s.a, env)
                     ELSE Outcome(s.a, PyNone, PyNone, <<>>)
            IN Outcome(c.a, PyNone, PyNone, p.log \o s.log \o c.log)

\* initialize
initialize(a, env) ==
    IF ~_validate_config(a) THEN Outcome(a, FALSE, PyNone, <<>>)
    ELSE LET v == _create_vanna_instance(a, env)
         IN IF ~v.ret THEN v
            ELSE LET d == _connect_database(v.a, env)
                 IN IF ~d.ret THEN Outcome(d.a, FALSE, PyNone, v.log \o d.log)
                    ELSE LET t == _train_system(d.a, env)
                         IN Outcome([t.a EXCEPT !.initialized = TRUE], TRUE, PyNone,
                                    v.log \o d.log \o t.log)


-----------------------------------------------------------------------------
(* VannaAgent.ask and VannaAgent.execute *)

\* a validation without the strip: a blank question passes
ValidateQuestionNoStrip(question) ==
    ~(~Truthy(question) \/ question.t # "str")

\* _validate_question
_validate_question(question) ==
    ~(~Truthy(question) \/ question.t # "str" \/ strip(question.v) = <<>>)

\* a rewriting that takes whatever string the rewriter returns
RewriteNoFallback(a, question, last_question, rewritten_question) ==
    IF ~Truthy(last_question) THEN Outcome(a, question, PyNone, <<>>)
    ELSE IF rewritten_question.t = "raise"
    THEN Outcome(a, question, PyNone,
                 <<Answered("generate_rewritten_question", <<last_question, question>>,
                            rewritten_question, a)>>)
    ELSE Outcome(a, PyStr(strip(rewritten_question.v)), PyNone,
                 <<Answered("generate_rewritten_question", <<last_question, question>>,
                            rewritten_question, a)>>)

\* _rewrite_question_with_context, from the last question of the history and
\* from what generate_rewritten_question returns or raises
Rewritten(a, question, last_question, rewritten_question) ==
    IF ~Truthy(last_question) THEN Outcome(a, question, PyNone, <<>>)
    ELSE IF /\ rewritten_question.t = "str"
            /\ Truthy(rewritten_question)
            /\ strip(rewritten_question.v) # strip(question.v)
    THEN Outcome(a, PyStr(strip(rewritten_question.v)), PyNone,
                 <<Answered("generate_rewritten_question", <<last_question, question>>,
                            rewritten_question, a)>>)
    ELSE Outcome(a, question, PyNone,
                 <<Answered("generate_rewritten_question", <<last_question, question>>,
                            rewritten_question, a)>>)

\* _rewrite_question_with_context; env.rewrite is what generate_rewritten_question
\* returns or raises
_rewrite_question_with_context(a, question, env) ==
    Rewritten(a, question, _get_last_question(a), env.rewrite)

\* d[k] = val on a dict
SetKey(d, k, val) == [x \in DOMAIN d \cup {k} |-> IF x = k THEN val ELSE d[x]]

\* what a call on the agent hands back: the agent after it, the dict it returned,
\* the calls it made and the clock after it
Returned(a, ret, calls, now) == [a |-> a, ret |-> ret, log |-> calls, now |-> now]

\* an error text that leaves the validator's reason out
InvalidSqlErrorNoReason(validation_error) ==
    PyStr(<<"U+751FU+6210U+7684SQLU+7121U+6548: ">>
            \o <<". U+8ACBU+91CDU+65B0U+63CFU+8FF0...">>)

\* the error text of a rejected SQL
InvalidSqlError(validation_error) ==
    PyStr(<<"U+751FU+6210U+7684SQLU+7121U+6548: ">> \o py_str(validation_error).v
            \o <<". U+8ACBU+91CDU+65B0U+63CFU+8FF0...">>)

\* a history entry that records the processed question as the original one
QuestionEntryProcessedOnly(question, processed_question, generated_sql, use_conversation_context) ==
    [ type |-> PyStr(<<"question">>),
      original_question |-> processed_question,
      processed_question |-> processed_question,
      sql |-> generated_sql,
      context_used |-> use_conversation_context ]

\* the history entry of a successful ask
QuestionEntry(question, processed_question, generated_sql, use_conversation_context) ==
    [ type |-> PyStr(<<"question">>),
      original_question |-> question,
      processed_question |-> processed_question,
      sql |-> generated_sql,
      context_used |-> use_conversation_context ]

\* an ask that records the turn before it looks at the validator's verdict
AskJudgedAppendFirst(v, question, processed_question, generated_sql, use_conversation_context, calls, now) ==
    IF ~v.ret.is_valid
    THEN Returned(
            _add_to_conversation_history(v.a,
                QuestionEntry(question, processed_question, generated_sql,
                              use_conversation_context),
                now),
            [ error |-> InvalidSqlError(v.ret.error_message),
              question |-> question,
              processed_question |-> processed_question,
              sql |-> generated_sql ],
            calls \o v.log, now + 1)
    ELSE Returned(
            _add_to_conversation_history(v.a,
                QuestionEntry(question, processed_question, generated_sql,
                              use_conversation_context),
                now),
            IF processed_question # question
            THEN [ question |-> question, sql |-> generated_sql,
                   processed_question |-> processed_question, context_used |-> TRUE ]
            ELSE [question |-> question, sql |-> generated_sql],
            calls \o v.log, now + 1)

\* ask, from the validator's verdict v on
AskJudged(v, question, processed_question, generated_sql, use_conversation_context, calls, now) ==
    IF ~v.ret.is_valid
    THEN Returned(v.a,
            [ error |-> InvalidSqlError(v.ret.error_message),
              question |-> question,
              processed_question |-> processed_question,
              sql |-> generated_sql ],
            calls \o v.log, now)
    ELSE Returned(
            _add_to_conversation_history(v.a,
                QuestionEntry(question, processed_question, generated_sql,
                              use_conversation_context),
                now),
            IF processed_question # question
            THEN SetKey(SetKey([question |-> question, sql |-> generated_sql],
                               "processed_question", processed_question),
                        "context_used", TRUE)
            ELSE [question |-> question, sql |-> generated_sql],
            calls \o v.log, now + 1)

\* the call of the validator in ask, with its answer
Validated(v, a, generated_sql, processed_question) ==
    [v EXCEPT !.log = <<Answered("validate_sql", <<generated_sql, processed_question>>,
                                 v.ret, a)>> \o v.log]

\* ask, from the SQL validation on
AskValidated(a, question, processed_question, generated_sql, use_conversation_context, env, calls, now) ==
    AskJudged(
        Validated(validate_sql(a, generated_sql, processed_question, env.fetched, env.order),
                  a, generated_sql, processed_question),
        question, processed_question, generated_sql, use_conversation_context, calls, now)

\* a test that takes only None for a failed generation
NoSqlGeneratedNoneOnly(generated_sql) == generated_sql = PyNone

\* if not generated_sql
NoSqlGenerated(generated_sql) == ~Truthy(generated_sql)

\* ask, from the call of generate_sql on; rw is what the rewriting handed back
\* and generated_sql what generate_sql returns or raises
AskGenerated(a, question, rw, generated_sql, use_conversation_context, env, calls, now) ==
    IF generated_sql.t = "raise"
    THEN Returned(a, [error |-> PyStr(generated_sql.v), question |-> question],
                  calls \o rw.log
                        \o <<Answered("generate_sql", <<rw.ret>>, generated_sql, a)>>,
                  now)
    ELSE IF NoSqlGenerated(generated_sql)
    THEN Returned(a, [error |-> PyStr(<<"Failed to generate SQL">>), question |-> question],
                  calls \o rw.log
                        \o <<Answered("generate_sql", <<rw.ret>>, generated_sql, a)>>,
                  now)
    ELSE AskValidated(a, question, rw.ret, generated_sql, use_conversation_context, env,
                      calls \o rw.log
                            \o <<Answered("generate_sql", <<rw.ret>>, generated_sql, a)>>,
                      now)

\* ask, the body of its try block
AskTry(a, question, use_conversation_context, env, calls, now) ==
    IF ~_validate_question(question)
    THEN Returned(a, [error |-> PyStr(<<"Invalid question">>), question |-> py_str(question)],
                  calls, now)
    ELSE AskGenerated(a, question,
                      IF use_conversation_context
                      THEN _rewrite_question_with_context(a, question, env)
                      ELSE Outcome(a, question, PyNone, <<>>),
                      env.generate, use_conversation_context, env, calls, now)

\* an ask that goes on whatever initialize returns
AskUnguarded(i, question, use_conversation_context, env, now) ==
    AskTry(i.a, question, use_conversation_context, env, i.log, now)

\* ask, from what the lazy initialization handed back
AskInitialized(i, question, use_conversation_context, env, now) ==
    IF ~i.ret
    THEN Returned(i.a, [ error |-> PyStr(<<"Vanna AI agent not initialized">>),
                         question |-> question ],
                  i.log, now)
    ELSE AskTry(i.a, question, use_conversation_context, env, i.log, now)

\* ask
ask(a, question, use_conversation_context, env, now) ==
    AskInitialized(IF a.initialized THEN Outcome(a, TRUE, PyNone, <<>>)
                   ELSE initialize(a, env),
                   question, use_conversation_context, env, now)

\* an except block that lets the exception go on to the caller
ExecuteReraise(r, e, calls) == [r EXCEPT !.log = calls, !.ret = e]

\* the except block of execute: the ask result with an error and success False
ExecuteExcept(r, e, calls) ==
    [r EXCEPT !.log = calls,
              !.ret = SetKey(SetKey(r.ret, "error", PyStr(e.v)), "success", FALSE)]

\* the call of db_connector.execute_query in execute, with its answer
Ran(r, df) ==
    r.log \o <<Answered("db.execute_query", <<PyStr(strip(r.ret.sql.v))>>, df, r.a)>>

\* an execute that runs the SQL of a failed ask when the result carries one
ExecuteAskedRunsRejected(r, question, df) ==
    IF "error" \in DOMAIN r.ret /\ "sql" \notin DOMAIN r.ret THEN r
    ELSE IF r.ret.sql.t # "str"
    THEN ExecuteExcept(r, Raised("AttributeError"), r.log)
    ELSE IF strip(r.ret.sql.v) = <<>>
    THEN [r EXCEPT !.ret = [ error |-> PyStr(<<"Empty SQL generated">>),
                             question |-> question,
                             sql |-> PyStr(strip(r.ret.sql.v)),
                             success |-> FALSE ]]
    ELSE IF df.t = "raise"
    THEN ExecuteExcept(r, df, Ran(r, df))
    ELSE [r EXCEPT !.log = Ran(r, df),
                   !.ret = SetKey(SetKey(r.ret, "results",
                                         IF df # PyNone /\ df.v # <<>> THEN df.v ELSE <<>>),
                                  "success", df # PyNone)]

\* an execute that takes the turn out of the history when the database call fails
ExecuteAskedDropsFailedTurn(r, question, df) ==
    IF "error" \in DOMAIN r.ret THEN r
    ELSE IF r.ret.sql.t # "str"
    THEN ExecuteExcept(r, Raised("AttributeError"), r.log)
    ELSE IF strip(r.ret.sql.v) = <<>>
    THEN [r EXCEPT !.ret = [ error |-> PyStr(<<"Empty SQL generated">>),
                             question |-> question,
                             sql |-> PyStr(strip(r.ret.sql.v)),
                             success |-> FALSE ]]
    ELSE IF df.t = "raise"
    THEN ExecuteExcept([r EXCEPT !.a.conversation_history = SubSeq(@, 1, Len(@) - 1)],
                       df, Ran(r, df))
    ELSE [r EXCEPT !.log = Ran(r, df),
                   !.a.conversation_history =
                        IF df = PyNone THEN SubSeq(@, 1, Len(@) - 1) ELSE @,
                   !.ret = SetKey(SetKey(r.ret, "results",
                                         IF df # PyNone /\ df.v # <<>> THEN df.v ELSE <<>>),
                                  "success", df # PyNone)]

\* an execute that takes a query without rows for a failed one
ExecuteAskedEmptyFails(r, question, df) ==
    IF "error" \in DOMAIN r.ret THEN r
    ELSE IF r.ret.sql.t # "str"
    THEN ExecuteExcept(r, Raised("AttributeError"), r.log)
    ELSE IF strip(r.ret.sql.v) = <<>>
    THEN [r EXCEPT !.ret = [ error |-> PyStr(<<"Empty SQL generated">>),
                             question |-> question,
                             sql |-> PyStr(strip(r.ret.sql.v)),
                             success |-> FALSE ]]
    ELSE IF df.t = "raise"
    THEN ExecuteExcept(r, df, Ran(r, df))
    ELSE [r EXCEPT !.log = Ran(r, df),
                   !.ret = SetKey(SetKey(r.ret, "results",
                                         IF df # PyNone /\ df.v # <<>> THEN df.v ELSE <<>>),
                                  "success", df # PyNone /\ df.v # <<>>)]

\* execute, from the result r of ask on; df is what db_connector.execute_query
\* returns or raises
ExecuteAsked(r, question, df) ==
    IF "error" \in DOMAIN r.ret THEN r
    ELSE IF r.ret.sql.t # "str"
    THEN ExecuteExcept(r, Raised("AttributeError"), r.log)
    ELSE IF strip(r.ret.sql.v) = <<>>
    THEN [r EXCEPT !.ret = [ error |-> PyStr(<<"Empty SQL generated">>),
                             question |-> question,
                             sql |-> PyStr(strip(r.ret.sql.v)),
                             success |-> FALSE ]]
    ELSE IF df.t = "raise"
    THEN ExecuteExcept(r, df, Ran(r, df))
    ELSE [r EXCEPT !.log = Ran(r, df),
                   !.ret = SetKey(SetKey(r.ret, "results",
                                         IF df # PyNone /\ df.v # <<>> THEN df.v ELSE <<>>),
                                  "success", df # PyNone)]

\* execute; env.execute_query is what db_connector.execute_query returns or raises
execute(a, question, use_conversation_context, env, now) ==
    ExecuteAsked(ask(a, question, use_conversation_context, env, now), question,
                 env.execute_query)


-----------------------------------------------------------------------------
(* The inputs of the model: configurations, questions, and what the oracle, *)
(* the database and the file system answer                                 *)

\* VANNA_CONFIG: whether an API key is set, and the training flags
Configs ==
    [api_key : BOOLEAN, force_retrain : BOOLEAN, load_training_on_startup : BOOLEAN]

\* the database's schema
SchemaA ==
    PyDict(<< [table |-> "experiments",
               columns |-> <<[column_name |-> <<"id">>], [column_name |-> <<"name">>]>>],
              [table |-> "orders",
               columns |-> <<[column_name |-> <<"id">>]>>] >>)

\* what db_connector.get_schema_info answers: it raises (an injected connector), it
\* finds nothing or fails (an empty dict), or it returns the schema
Fetches == {Raised("SchemaError"), PyDict(<<>>), SchemaA}

\* the two of them the pipeline's requests meet
PipelineFetches == {Raised("SchemaError"), SchemaA}

\* the sample queries the training source yields
QueryNames ==
    << "n01", "n02", "n03", "n04", "n05", "n06", "n07", "n08", "n09", "n10",
       "n11", "n12", "n13", "n14", "n15", "n16" >>

SampleQuery(i) ==
    [ question |-> IF i % 5 = 0 THEN <<"list", " ", "shops", " ", QueryNames[i]>>
                   ELSE <<"Conversion", " ", "of", " ", QueryNames[i]>>,
      sql |-> <<"select", " ", QueryNames[i]>> ]

SampleQuerySets == { <<>>, [i \in 1..MaxQueries |-> SampleQuery(i)] }

\* what initialize meets when every step succeeds and the embeddings exist
DefaultInit ==
    [ create |-> PyNone, connect |-> TRUE, connect_to_postgres |-> PyNone,
      embeddings |-> "nonempty", train_fail |-> "none",
      train_fetched |-> PyDict(<<>>), queries |-> <<>> ]

\* whether initialize would reach a training step that reads the inputs
Trains(config, ie) ==
    /\ ie.create = PyNone /\ ie.connect /\ ie.connect_to_postgres = PyNone
    /\ (config.force_retrain \/ ie.embeddings \in {"missing", "empty"})

\* what the collaborators answer during initialize; an answer a run does not
\* read is left at its default
InitEnvs(a) ==
    IF a.initialized \/ ~a.config.api_key THEN {DefaultInit}
    ELSE { ie \in [ create : {PyNone, Raised("OracleError")},
                    connect : BOOLEAN,
                    connect_to_postgres : {PyNone, Raised("ConnectError")},
                    embeddings : {"missing", "empty", "nonempty", "unreadable"},
                    train_fail : {"none", "documentation", "ddl", "sql"},
                    train_fetched : Fetches,
                    queries : SampleQuerySets ] :
            /\ ie.create # PyNone =>
                    ie.connect /\ ie.connect_to_postgres = PyNone
            /\ ~ie.connect => ie.connect_to_postgres = PyNone
            /\ ~Trains(a.config, ie) =>
                    /\ ie.train_fail = DefaultInit.train_fail
                    /\ ie.train_fetched = DefaultInit.train_fetched
                    /\ ie.queries = DefaultInit.queries
            /\ ~(ie.create = PyNone /\ ie.connect /\ ie.connect_to_postgres = PyNone) =>
                    ie.embeddings = DefaultInit.embeddings
            /\ ~a.config.load_training_on_startup =>
                    ie.queries = DefaultInit.queries /\ ie.train_fail # "sql" }

\* the questions asked
QuestionInputs ==
    { PyNone, PyNum, PyStr(<<>>), PyStr(<<" ">>), PyStr(<<"q1">>) }

\* what generate_rewritten_question answers to a question
RewriteOutputs(question) ==
    { Raised("RewriteError"), PyStr(<<>>), question, PyStr(question.v \o <<" ">>),
      PyStr(<<" ", "q3", " ">>) }

\* SQL texts the oracle generates
SqlPlain == PyStr(<<"select", " ", "id", " ", "from", " ", "experiments">>)
SqlPadded == PyStr(<<" ", "SELECT", " ", "name", " ", "FROM", " ", "experiments", " ">>)
SqlRevenue ==
    PyStr(<<"select", " ", "id", " ", "from", " ", "experiments", " ", "where", " ",
            "revenue", " ", ">", " ", "100">>)

\* what generate_sql answers
GenerateOutputs ==
    { Raised("GenerateError"), PyNone, PyNum, PyStr(<<>>), SqlPadded, SqlRevenue }

\* iteration orders of the validator's sets of names
Order1 ==
    << <<"conversion_rate">>, <<"revenue">>, <<"clicks">>, <<"impressions">>,
       <<"created_by">>, <<"user_id">>, <<"tags">>, <<"priority">>, <<"budget">>,
       <<"success_rate">>, <<"participant_count">>, <<"ctr">>, <<"roas">> >>

Reverse(seq) == [i \in 1..Len(seq) |-> seq[Len(seq) + 1 - i]]

Orders == {Order1, Reverse(Order1)}

\* what db_connector.execute_query answers: rows, no rows, None on a database
\* error, or an exception (an injected connector)
ExecuteOutputs ==
    { DataFrame(<<"row1", "row2">>), DataFrame(<<>>), PyNone, Raised("ExecuteError") }

\* whether a generated text holds more than one of the validator's names, so that
\* the iteration order of the set decides which one is reported
SeveralNames(sql) ==
    /\ sql.t = "str"
    /\ Cardinality({ i \in 1..Len(Order1) : Contains(lower(sql.v), Order1[i]) }) > 1

\* whether validate_sql reads the schema for this text
ReadsSchema(sql) == _is_basic_sql_valid(sql) /\ ~_contains_error_message(sql)

\* the answers a request reads; an answer the request does not read is left at
\* its default
RewriteEnvs(a, question, use_conversation_context) ==
    IF _validate_question(question) /\ use_conversation_context
        /\ Truthy(_get_last_question(a))
    THEN RewriteOutputs(question) ELSE {PyNone}

GenerateEnvs(question) ==
    IF _validate_question(question) THEN GenerateOutputs ELSE {PyNone}

FetchEnvs(a, generated_sql) ==
    IF ReadsSchema(generated_sql) /\ a._schema_cache = PyNone
    THEN PipelineFetches ELSE {PyDict(<<>>)}

OrderEnvs(generated_sql) ==
    IF ReadsSchema(generated_sql) /\ SeveralNames(generated_sql) THEN Orders ELSE {Order1}

\* what initialize meets when a request of the pipeline runs it: the oracle cannot
\* be created, the database refuses, the embeddings exist already, or the system
\* is trained
StartupEnvs(a) ==
    IF a.initialized \/ ~a.config.api_key THEN {DefaultInit}
    ELSE { [DefaultInit EXCEPT !.create = Raised("OracleError")],
           [DefaultInit EXCEPT !.connect = FALSE],
           DefaultInit,
           [DefaultInit EXCEPT !.embeddings = "missing", !.train_fetched = SchemaA,
                               !.queries = [i \in 1..MaxQueries |-> SampleQuery(i)]] }

\* the configurations of the pipeline's agent
PipelineConfigs ==
    { [api_key |-> TRUE, force_retrain |-> FALSE, load_training_on_startup |-> TRUE],
      [api_key |-> FALSE, force_retrain |-> FALSE, load_training_on_startup |-> TRUE] }

\* a saved UI conversation of n question/answer pairs
SavedConversation(n) ==
    [ i \in 1..(2 * n) |->
        IF i % 2 = 1
        THEN [ role |-> "user",
               content |-> IF i % 4 = 1 THEN PyStr(<<"q1">>) ELSE PyStr(<<"q2">>),
               metadata |-> [none |-> PyNone] ]
        ELSE [ role |-> "assistant", content |-> PyStr(<<"answer">>),
               metadata |-> [sql |-> SqlPlain] ] ]

\* a saved UI conversation with an answer that has no SQL and a question that
\* was never answered
IrregularConversation ==
    << [role |-> "assistant", content |-> PyStr(<<"hello">>), metadata |-> [sql |-> SqlPlain]],
       [role |-> "user", content |-> PyStr(<<"q1">>), metadata |-> [none |-> PyNone]],
       [role |-> "assistant", content |-> PyStr(<<"failed">>), metadata |-> [none |-> PyNone]],
       [role |-> "user", content |-> PyStr(<<"q2">>), metadata |-> [none |-> PyNone]],
       [role |-> "assistant", content |-> PyStr(<<"answer">>), metadata |-> [sql |-> SqlPadded]] >>

SavedConversations ==
    { SavedConversation(n) :
        n \in { k \in 1..MaxLoad : k >= max_history_length } }
    \cup {IrregularConversation}

\* entries a caller hands to _add_to_conversation_history
HistoryEntries ==
    { [type |-> PyStr(<<"question">>), processed_question |-> PyStr(<<"q2">>)],
      [type |-> PyStr(<<"question">>), processed_question |-> PyStr(<<>>)],
      [type |-> PyStr(<<"note">>), processed_question |-> PyStr(<<"q3">>)],
      [text |-> PyStr(<<"untyped">>)] }

-----------------------------------------------------------------------------
(* The state machine: one action for each call on the agent, and one for    *)
(* the caller going on after the call returned                             *)

NoCall == [op |-> "none", args |-> <<>>]

Init ==
    /\ agent \in { VannaAgent(config) : config \in PipelineConfigs }
    /\ clock = 0
    /\ call = NoCall
    /\ result = PyNone
    /\ log = <<>>
    /\ pc = "idle"
    /\ ncalls = 0

\* a call on the agent may begin
CanCall == pc = "idle" /\ ncalls < MaxCalls

\* agent.initialize()
Initialize ==
    /\ CanCall
    /\ \E ie \in StartupEnvs([agent EXCEPT !.initialized = FALSE]) :
        LET out == initialize(agent, ie)
        IN /\ agent' = out.a
           /\ result' = out.ret
           /\ log' = out.log
    /\ call' = [op |-> "initialize", args |-> <<>>]
    /\ pc' = "returned"
    /\ ncalls' = ncalls + 1
    /\ UNCHANGED clock

\* the agent hands back what the call returned
Deliver(out) ==
    /\ agent' = out.a
    /\ clock' = out.now
    /\ result' = out.ret
    /\ log' = out.log

\* agent.ask(question, use_conversation_context)
Ask ==
    /\ CanCall
    /\ \E question \in QuestionInputs, use_conversation_context \in BOOLEAN :
       \E ie \in StartupEnvs(agent) :
       \E rewrite \in RewriteEnvs(agent, question, use_conversation_context) :
       \E generate \in GenerateEnvs(question) :
       \E fetched \in FetchEnvs(initialize(agent, ie).a, generate) :
       \E order \in OrderEnvs(generate) :
        /\ Deliver(ask(agent, question, use_conversation_context,
                       ie @@ [rewrite |-> rewrite, generate |-> generate,
                              fetched |-> fetched, order |-> order],
                       clock))
        /\ call' = [op |-> "ask", args |-> <<question, use_conversation_context>>]
    /\ pc' = "returned"
    /\ ncalls' = ncalls + 1

\* what the database may answer to execute: it is asked only when ask succeeded
ExecuteEnvs(asked) ==
    IF "error" \in DOMAIN asked.ret THEN {PyNone} ELSE ExecuteOutputs

\* agent.execute(question, use_conversation_context)
Execute ==
    /\ CanCall
    /\ \E question \in QuestionInputs, use_conversation_context \in BOOLEAN :
       \E ie \in StartupEnvs(agent) :
       \E rewrite \in RewriteEnvs(agent, question, use_conversation_context) :
       \E generate \in GenerateEnvs(question) :
       \E fetched \in FetchEnvs(initialize(agent, ie).a, generate) :
       \E order \in OrderEnvs(generate) :
       \E df \in ExecuteEnvs(ask(agent, question, use_conversation_context,
                                 ie @@ [rewrite |-> rewrite, generate |-> generate,
                                        fetched |-> fetched, order |-> order],
                                 clock)) :
        /\ Deliver(execute(agent, question, use_conversation_context,
                           ie @@ [rewrite |-> rewrite, generate |-> generate,
                                  fetched |-> fetched, order |-> order,
                                  execute_query |-> df],
                           clock))
        /\ call' = [op |-> "execute", args |-> <<question, use_conversation_context>>]
    /\ pc' = "returned"
    /\ ncalls' = ncalls + 1

\* agent.clear_conversation()
ClearConversation ==
    /\ CanCall
    /\ agent' = clear_conversation(agent)
    /\ call' = [op |-> "clear_conversation", args |-> <<>>]
    /\ result' = PyNone
    /\ log' = <<>>
    /\ pc' = "returned"
    /\ ncalls' = ncalls + 1
    /\ UNCHANGED clock

\* agent._add_to_conversation_history(entry)
AddToConversationHistory ==
    /\ CanCall
    /\ \E entry \in HistoryEntries :
        /\ agent' = _add_to_conversation_history(agent, entry, clock)
        /\ call' = [op |-> "_add_to_conversation_history", args |-> <<entry>>]
    /\ clock' = clock + 1
    /\ result' = PyNone
    /\ log' = <<>>
    /\ pc' = "returned"
    /\ ncalls' = ncalls + 1

\* load_conversation(conversation_id) of the UI, on this agent
LoadConversation ==
    /\ CanCall
    /\ \E ui \in SavedConversations :
        LET out == load_conversation(agent, ui, clock)
        IN /\ agent' = out.a
           /\ clock' = out.now
           /\ call' = [op |-> "load_conversation", args |-> <<ui>>]
    /\ result' = PyNone
    /\ log' = <<>>
    /\ pc' = "returned"
    /\ ncalls' = ncalls + 1

\* the caller has read the result and goes on
Return ==
    /\ pc = "returned"
    /\ pc' = "idle"
    /\ call' = NoCall
    /\ result' = PyNone
    /\ log' = <<>>
    /\ UNCHANGED <<agent, clock, ncalls>>

Next ==
    \/ Initialize
    \/ Ask
    \/ Execute
    \/ ClearConversation
    \/ AddToConversationHistory
    \/ LoadConversation
    \/ Return

Spec == Init /\ [][Next]_vars

-----------------------------------------------------------------------------
(* Properties of the pipeline, checked under Spec *)

\* a step in which the agent runs a call named in ops
CallStep(ops) == pc = "idle" /\ pc' = "returned" /\ call'.op \in ops

\* a state in which a call named in ops has just returned
JustReturned(ops) == pc = "returned" /\ call.op \in ops

\* the calls of a log made to one collaborator
Events(calls, op) == SelectSeq(calls, LAMBDA ev : ev.op = op)

\* whether a dict returned by ask or execute is an error result
IsError(ret) == "error" \in DOMAIN ret

\* all of a sequence but its last element
Front(seq) == SubSeq(seq, 1, Len(seq) - 1)

\* a history with room for one more entry: itself when shorter than the bound,
\* else all but its oldest entry
RoomFor(h) == IF Len(h) < max_history_length THEN h ELSE Tail(h)

\* whether the call of a step appends to the history: a direct append, or a
\* request whose SQL the validator let through
Appends ==
    \/ call'.op = "_add_to_conversation_history"
    \/ \E i \in 1..Len(log') : log'[i].op = "validate_sql" /\ log'[i].ret.is_valid

\* an append to the history keeps the newest entry and drops at most the oldest
C1_Append ==
    LET h == agent.conversation_history
        h2 == agent'.conversation_history
    IN IF Appends
       THEN /\ h2 # <<>>
            /\ Front(h2) = RoomFor(h)
            /\ Get(h2[Len(h2)], "timestamp") = PyTime(clock)
            /\ call'.op = "_add_to_conversation_history" =>
                    h2[Len(h2)] = Stamped(call'.args[1], clock)
            /\ call'.op # "_add_to_conversation_history" =>
                    h2[Len(h2)].original_question = call'.args[1]
       ELSE h2 = h

\* C1: in every reachable state the conversation history holds at most 20
\* entries, and an append by ask, execute or _add_to_conversation_history that
\* would make it 21 long drops exactly the oldest entry: the entries kept are
\* the most recent ones in their order, the new entry last.
C1_HistoryBounded ==
    /\ [](Len(agent.conversation_history) <= max_history_length)
    /\ [][CallStep({"ask", "execute", "_add_to_conversation_history"}) => C1_Append]_vars

\* C1 witness: an ask succeeded on a full history, the oldest entry (stamped 0)
\* is gone and the new entry is the last of 20.
C1_Witness ==
    /\ JustReturned({"ask"}) /\ ~IsError(result)
    /\ Len(agent.conversation_history) = max_history_length
    /\ agent.conversation_history[1].timestamp = PyTime(1)
    /\ agent.conversation_history[max_history_length].timestamp = PyTime(clock - 1)
    /\ agent.conversation_history[max_history_length].original_question = call.args[1]

\* the positions of a history that hold a question with a processed question
QuestionPositions(h) ==
    { i \in 1..Len(h) :
        /\ "type" \in DOMAIN h[i] /\ h[i].type = PyStr(<<"question">>)
        /\ "processed_question" \in DOMAIN h[i]
        /\ h[i].processed_question \notin {PyNone, PyStr(<<>>)} }

\* C2: _get_last_question returns None on a history with no question that has
\* a non-empty processed question (the empty history among them), and otherwise
\* the processed question of the most recent such entry, whatever entries
\* follow it.
C2_LastQuestion ==
    LET h == agent.conversation_history
        at == QuestionPositions(h)
    IN IF at = {} THEN _get_last_question(agent) = PyNone
       ELSE \E i \in at :
                /\ \A j \in at : j <= i
                /\ _get_last_question(agent) = h[i].processed_question

\* C2 witness: the most recent entry is not a question (or has an empty
\* processed question) and the last question is found before it.
C2_Witness ==
    LET h == agent.conversation_history
    IN /\ Len(h) >= 2
       /\ Len(h) \notin QuestionPositions(h)
       /\ QuestionPositions(h) # {}
       /\ _get_last_question(agent) # PyNone

\* an empty, blank or non-string question
InvalidQuestion(question) ==
    \/ question.t # "str"
    \/ \A i \in 1..Len(question.v) : question.v[i] \in Whitespace

\* the calls a request makes to the oracle
OracleOps == {"generate_rewritten_question", "generate_sql", "train", "MyVanna"}

\* whether a log holds a call to the oracle
CallsOracle(calls) == \E i \in 1..Len(calls) : calls[i].op \in OracleOps

\* C3 as stated: for every pipeline state, ask with an empty, blank or
\* non-string question returns the InvalidQuestion error, changes no state of
\* the pipeline and makes no call to the oracle.
C3_AsStated ==
    [][CallStep({"ask"}) /\ InvalidQuestion(call'.args[1]) =>
        /\ result' = [error |-> PyStr(<<"Invalid question">>),
                      question |-> py_str(call'.args[1])]
        /\ agent' = agent
        /\ ~CallsOracle(log')]_vars

\* C3 amended: for every Ready pipeline state, ask with an empty, blank or
\* non-string question returns the InvalidQuestion error, changes no state of
\* the pipeline (history, initialization state, schema cache) and calls no
\* collaborator at all.
C3_InvalidQuestionReady ==
    [][CallStep({"ask"}) /\ agent.initialized /\ InvalidQuestion(call'.args[1]) =>
        /\ result' = [error |-> PyStr(<<"Invalid question">>),
                      question |-> py_str(call'.args[1])]
        /\ agent' = agent
        /\ clock' = clock
        /\ log' = <<>>]_vars

\* C3 witness: a Ready agent with a history has just rejected a blank question.
C3_Witness ==
    /\ JustReturned({"ask"})
    /\ call.args[1] = PyStr(<<" ">>)
    /\ agent.initialized /\ log = <<>>
    /\ agent.conversation_history # <<>>
    /\ IsError(result) /\ result.error = PyStr(<<"Invalid question">>)

\* what a request does with the answers of the rewriter
C4_Step ==
    LET question == call'.args[1]
        use_conversation_context == call'.args[2]
        rewrites == Events(log', "generate_rewritten_question")
        generates == Events(log', "generate_sql")
    IN /\ (~use_conversation_context \/ _get_last_question(agent) = PyNone) =>
            rewrites = <<>>
       /\ Len(rewrites) <= 1
       /\ \A i \in 1..Len(rewrites) :
            /\ rewrites[i].args = <<_get_last_question(agent), question>>
            /\ (\/ rewrites[i].ret.t = "raise"
                \/ rewrites[i].ret = PyStr(<<>>)
                \/ rewrites[i].ret = question) =>
                    /\ Len(generates) = 1
                    /\ generates[1].args = <<question>>
                    /\ IsError(result') => result'.error # py_str(rewrites[i].ret)
                    /\ ~IsError(result') => "processed_question" \notin DOMAIN result'

\* C4: the rewriter is called only when context use is on and the history has
\* a prior question; when it raises, returns an empty string or returns the
\* question itself, the request goes on with the original question: generate is
\* called with the original question and the result carries no rewrite error.
C4_RewriteFallback ==
    [][CallStep({"ask", "execute"}) => C4_Step]_vars

\* C4 witness: the rewriter raised, generate was called with the original
\* question and the ask succeeded.
C4_Witness ==
    /\ JustReturned({"ask"}) /\ ~IsError(result)
    /\ \E i \in 1..Len(log) :
        /\ log[i].op = "generate_rewritten_question"
        /\ log[i].ret.t = "raise"
    /\ \E i \in 1..Len(log) :
        /\ log[i].op = "generate_sql"
        /\ log[i].args = <<call.args[1]>>

\* what a request does with the answer of the generator
C5_Step ==
    LET generates == Events(log', "generate_sql")
    IN /\ Len(generates) <= 1
       /\ \A i \in 1..Len(generates) :
            generates[i].ret \in {PyNone, PyStr(<<>>)} =>
                /\ result' = [error |-> PyStr(<<"Failed to generate SQL">>),
                              question |-> call'.args[1]]
                /\ Events(log', "validate_sql") = <<>>
                /\ Events(log', "db.execute_query") = <<>>
                /\ agent'.conversation_history = agent.conversation_history

\* C5: a request calls generate at most once; when generate returns nothing or
\* an empty string the request returns the GenerationFailed error, the
\* validator is not called and the history is left as it was.
C5_GenerateOnce ==
    [][CallStep({"ask", "execute"}) => C5_Step]_vars

\* C5 witness: generate returned an empty string to a request made on a
\* non-empty history, and the request returned GenerationFailed.
C5_Witness ==
    /\ JustReturned({"ask", "execute"})
    /\ agent.conversation_history # <<>>
    /\ \E i \in 1..Len(log) :
        /\ log[i].op = "generate_sql"
        /\ log[i].ret = PyStr(<<>>)
    /\ IsError(result) /\ result.error = PyStr(<<"Failed to generate SQL">>)

\* whether a text holds a reason as a run of consecutive units
Carries(text, reason) ==
    \E i \in 1..Len(text) :
        /\ i + Len(reason) - 1 <= Len(text)
        /\ SubSeq(text, i, i + Len(reason) - 1) = reason

\* what ask does with a rejection by the validator
C6_Step ==
    LET generates == Events(log', "generate_sql")
        validations == Events(log', "validate_sql")
    IN \A i \in 1..Len(validations) :
        ~validations[i].ret.is_valid =>
            /\ Len(generates) = 1
            /\ DOMAIN result' = {"error", "question", "sql", "processed_question"}
            /\ validations[i].ret.error_message.v # <<>>
            /\ Carries(result'.error.v, validations[i].ret.error_message.v)
            /\ result'.question = call'.args[1]
            /\ result'.sql = generates[1].ret
            /\ result'.processed_question = generates[1].args[1]
            /\ agent'.conversation_history = agent.conversation_history

\* C6: when the validator rejects the generated SQL, ask returns an error
\* result whose error text carries the validator's reason, whose sql is the
\* SQL exactly as the oracle returned it and whose processed_question is the
\* question the oracle was asked; no turn is appended to the history.
C6_ValidationRejected ==
    [][CallStep({"ask"}) => C6_Step]_vars

\* C6 witness: the validator rejected the SQL generated for a rewritten
\* question, and ask returned it with the processed question.
C6_Witness ==
    /\ JustReturned({"ask"}) /\ IsError(result)
    /\ \E i \in 1..Len(log) :
        /\ log[i].op = "validate_sql"
        /\ ~log[i].ret.is_valid
    /\ "sql" \in DOMAIN result /\ result.sql = SqlRevenue
    /\ result.processed_question # call.args[1]

\* C7: an ask that returns an error result leaves the conversation history
\* exactly as it was; the history changes only when ask returns a result
\* without an error.
C7_ErrorKeepsHistory ==
    [][CallStep({"ask"}) /\ IsError(result') =>
        agent'.conversation_history = agent.conversation_history]_vars

\* C7 witness: ask returned an error after the oracle and the validator were
\* called, on an agent whose history holds entries.
C7_Witness ==
    /\ JustReturned({"ask"}) /\ IsError(result)
    /\ agent.conversation_history # <<>>
    /\ Events(log, "validate_sql") # <<>>
    /\ Events(log, "generate_rewritten_question") # <<>>

\* what a successful ask returns and records
C8_Step ==
    LET question == call'.args[1]
        generates == Events(log', "generate_sql")
        h == agent.conversation_history
        h2 == agent'.conversation_history
        processed_question == generates[1].args[1]
    IN /\ Len(generates) = 1
       /\ h2 = Append(RoomFor(h),
                [type |-> PyStr(<<"question">>),
                 original_question |-> question,
                 processed_question |-> processed_question,
                 sql |-> generates[1].ret,
                 context_used |-> call'.args[2],
                 timestamp |-> PyTime(clock)])
       /\ result'.question = question
       /\ result'.sql = generates[1].ret
       /\ "processed_question" \in DOMAIN result' <=> processed_question # question
       /\ "processed_question" \in DOMAIN result' =>
            result'.processed_question = processed_question

\* C8: an ask that succeeds appends exactly one turn to the history, holding
\* the original question, the processed question, the generated SQL, the
\* context flag and a timestamp, and returns the original question and the
\* generated SQL; the result includes processedQuestion exactly when the
\* processed question differs from the original.
C8_SuccessAppendsOne ==
    [][CallStep({"ask"}) /\ ~IsError(result') => C8_Step]_vars

\* C8 witness: an ask succeeded with a rewritten question, which the result
\* reports and the new turn records.
C8_Witness ==
    LET h == agent.conversation_history
    IN /\ JustReturned({"ask"}) /\ ~IsError(result)
       /\ "processed_question" \in DOMAIN result
       /\ result.processed_question # call.args[1]
       /\ h # <<>>
       /\ h[Len(h)].processed_question = result.processed_question
       /\ h[Len(h)].original_question = call.args[1]

\* the collaborators whose exception ends the request
EndingOps == {"generate_sql", "db.execute_query"}

\* C9: ask and execute let no exception escape. Whatever the rewriter, the
\* generator, the validator, the steps of initialization or the query executor
\* raise, the call returns a result dictionary; when an exception of the
\* generator or of the executor ended the request the dictionary has an error
\* field holding the exception's text, and when initialization failed it has
\* an error field too. (An exception of the rewriter or inside the validator
\* does not end the request. An executor that reports a failure by returning
\* None raises nothing: what execute returns then is the subject of C24.)
C9_NoEscape ==
    JustReturned({"ask", "execute"}) =>
        /\ "question" \in DOMAIN result
        /\ "t" \notin DOMAIN result
        /\ \A i \in 1..Len(log) :
            (log[i].op \in EndingOps /\ log[i].ret.t = "raise") =>
                /\ IsError(result)
                /\ result.error = PyStr(log[i].ret.v)
                /\ call.op = "execute" /\ log[i].op = "db.execute_query" =>
                        "success" \in DOMAIN result /\ ~result.success
        /\ ~agent.initialized => IsError(result)

\* C9 witness: the query executor raised and execute returned the ask result
\* with its error.
C9_Witness ==
    /\ JustReturned({"execute"})
    /\ \E i \in 1..Len(log) :
        /\ log[i].op = "db.execute_query"
        /\ log[i].ret = Raised("ExecuteError")
    /\ IsError(result) /\ result.error = PyStr(<<"ExecuteError">>)
    /\ "sql" \in DOMAIN result /\ "question" \in DOMAIN result

\* the collaborators a request calls once the pipeline is Ready
RequestOps == {"generate_rewritten_question", "generate_sql", "validate_sql", "db.execute_query"}

\* what a request does on a pipeline that is not Ready
C10_Step ==
    ~agent.initialized =>
        /\ agent.config.api_key => log' # <<>> /\ log'[1].op = "MyVanna"
        /\ ~agent'.initialized =>
            /\ result' = [error |-> PyStr(<<"Vanna AI agent not initialized">>),
                          question |-> call'.args[1]]
            /\ \A i \in 1..Len(log') : log'[i].op \notin RequestOps
            /\ agent'.conversation_history = agent.conversation_history

\* C10: no call to the oracle's rewriter or generator, to the validator or to
\* the query executor is made while the pipeline is not Ready; a request on a
\* pipeline that is not Ready first runs initialization and, when that fails,
\* returns the 'not initialized' error without processing the question.
C10_ReadyBeforeCalls ==
    /\ [](\A i \in 1..Len(log) : log[i].op \in RequestOps => log[i].ready)
    /\ [][CallStep({"ask", "execute"}) => C10_Step]_vars

\* C10 witness: a request on a fresh agent tried to initialize, the oracle
\* could not be created, and the request returned 'not initialized'.
C10_Witness ==
    /\ JustReturned({"ask", "execute"})
    /\ ~agent.initialized
    /\ log # <<>> /\ log[1].op = "MyVanna"
    /\ IsError(result)
    /\ result.error = PyStr(<<"Vanna AI agent not initialized">>)
    /\ call.args[1] = PyStr(<<"q1">>)

-----------------------------------------------------------------------------
(* Startup: initialize met with every answer of its collaborators, and     *)
(* train_with_examples                                                     *)

\* the documents the training source yields
MaxDocuments == 2

\* the document loop of _load_training_data from document i on
RECURSIVE DocumentLoop(_, _, _, _)
DocumentLoop(a, documents, i, env) ==
    IF i > Len(documents) THEN <<>>
    ELSE <<Ev("train", <<"documentation", documents[i]>>, a)>>
            \o (IF env.train_fail = "documentation" THEN <<>>
                ELSE DocumentLoop(a, documents, i + 1, env))

\* _load_training_data: every sample query, then every document; an exception
\* ends it and is caught
_load_training_data(a, env) ==
    Outcome(a, PyNone, PyNone,
            QueryLoop(a, env.queries, 1, env)
                \o (IF env.train_fail = "sql" /\ env.queries # <<>> THEN <<>>
                    ELSE DocumentLoop(a, env.documents, 1, env)))

\* whether the example is trained with
IsExample(example) == "question" \in DOMAIN example /\ "sql" \in DOMAIN example

\* the example loop of train_with_examples from example i on
RECURSIVE ExampleLoop(_, _, _, _)
ExampleLoop(a, examples, i, env) ==
    IF i > Len(examples) THEN <<>>
    ELSE IF IsExample(examples[i])
    THEN <<Ev("train", <<"sql", examples[i].question, examples[i].sql>>, a)>>
            \o (IF env.train_fail = "sql" THEN <<>>
                ELSE ExampleLoop(a, examples, i + 1, env))
    ELSE ExampleLoop(a, examples, i + 1, env)

\* the try block of train_with_examples, on the initialized agent
TrainTry(a, examples, reload_training_data, env, calls) ==
    IF examples = PyNone
    THEN Outcome(a, TRUE, PyNone, calls \o _load_training_data(a, env).log)
    ELSE Outcome(a,
                 ~(env.train_fail = "sql" /\ \E i \in 1..Len(examples) : IsExample(examples[i])),
                 PyNone,
                 calls \o (IF reload_training_data THEN _load_training_data(a, env).log
                           ELSE <<>>)
                       \o ExampleLoop(a, examples, 1, env))

\* train_with_examples after its initialization i
TrainInitialized(i, examples, reload_training_data, env) ==
    IF ~i.ret THEN Outcome(i.a, FALSE, PyNone, i.log)
    ELSE TrainTry(i.a, examples, reload_training_data, env, i.log)

\* train_with_examples
train_with_examples(a, examples, reload_training_data, env) ==
    TrainInitialized(IF a.initialized THEN Outcome(a, TRUE, PyNone, <<>>)
                     ELSE initialize(a, env),
                     examples, reload_training_data, env)

\* the examples handed to train_with_examples: none, an empty list, and a list
\* with one entry that lacks its sql
ExampleInputs ==
    { PyNone,
      <<>>,
      << [question |-> <<"how", " ", "many", " ", "shops">>, sql |-> <<"select", " ", "1">>],
         [question |-> <<"no", " ", "sql">>],
         [question |-> <<"top", " ", "shops">>, sql |-> <<"select", " ", "2">>] >> }

\* the documents of the training source
Documents == { [i \in 1..n |-> QueryNames[i]] : n \in {0, MaxDocuments} }

\* what train_with_examples meets: the answers to its initialization, the
\* training source, and the kind of train call the oracle refuses
TrainEnvs(a) ==
    { [ie EXCEPT !.train_fail = f, !.queries = q] @@ [documents |-> d] :
        ie \in StartupEnvs(a),
        f \in {"none", "sql", "documentation"},
        q \in {<<>>, <<SampleQuery(1), SampleQuery(5)>>},
        d \in Documents }

\* the agent of a session before get_vanna_agent initialized it
StartupInit ==
    /\ agent \in { VannaAgent(config) : config \in Configs }
    /\ clock = 0
    /\ call = NoCall
    /\ result = PyNone
    /\ log = <<>>
    /\ pc = "idle"
    /\ ncalls = 0

\* agent.initialize(), met with every answer of its collaborators; the method
\* reads them whether or not the agent is initialized already
StartupInitialize ==
    /\ CanCall
    /\ \E ie \in InitEnvs([agent EXCEPT !.initialized = FALSE]) :
        /\ Deliver(initialize(agent, ie) @@ [now |-> clock])
        /\ call' = [op |-> "initialize", args |-> <<ie>>]
    /\ pc' = "returned"
    /\ ncalls' = ncalls + 1

\* agent.train_with_examples(examples, reload_training_data)
TrainWithExamples ==
    /\ CanCall
    /\ \E examples \in ExampleInputs, reload_training_data \in BOOLEAN :
       \E env \in TrainEnvs(agent) :
        /\ Deliver(train_with_examples(agent, examples, reload_training_data, env)
                        @@ [now |-> clock])
        /\ call' = [op |-> "train_with_examples",
                    args |-> <<examples, reload_training_data, env>>]
    /\ pc' = "returned"
    /\ ncalls' = ncalls + 1

StartupNext ==
    \/ StartupInitialize
    \/ TrainWithExamples
    \/ Ask
    \/ Execute
    \/ Return

Startup == StartupInit /\ [][StartupNext]_vars

-----------------------------------------------------------------------------
(* Claims about initialization                                             *)

\* the names of the calls made, in order
OpNames(calls) == [i \in 1..Len(calls) |-> calls[i].op]

\* the calls of the training step
TrainingOps == {"train", "db.get_schema_info"}

\* the steps of an initialize call, told from what its collaborators answered:
\* the calls made are those up to the first step that fails, in the order
\* config validation, oracle creation, database connection, training; the
\* call returns success exactly when no step before the training fails
C11_Steps(ie) ==
    IF ~agent.config.api_key
    THEN log' = <<>> /\ result' = FALSE
    ELSE IF ie.create # PyNone
    THEN OpNames(log') = <<"MyVanna">> /\ result' = FALSE
    ELSE IF ~ie.connect
    THEN OpNames(log') = <<"MyVanna", "db.connect">> /\ result' = FALSE
    ELSE IF ie.connect_to_postgres # PyNone
    THEN /\ OpNames(log') = <<"MyVanna", "db.connect", "connect_to_postgres">>
         /\ result' = FALSE
    ELSE /\ Len(log') >= 3
         /\ SubSeq(OpNames(log'), 1, 3) = <<"MyVanna", "db.connect", "connect_to_postgres">>
         /\ \A i \in 4..Len(log') : log'[i].op \in TrainingOps
         /\ \A i \in 1..Len(log') : log'[i].ready = agent.initialized
         /\ result' = TRUE
         /\ agent'.initialized

\* C11: initialize runs its steps strictly in the order config validation,
\* oracle creation, database connection, training, and becomes Ready only
\* after the training step; if any step fails, initialization halts there, no
\* later step runs, initialize returns failure and the pipeline is left not
\* Ready.  Stated of every initialize call, this fails: a call on a pipeline
\* that is Ready already (see C12) runs the steps again, and when one of them
\* fails it returns failure while the pipeline stays Ready.
C11_AsStated ==
    [][CallStep({"initialize"}) =>
            /\ C11_Steps(call'.args[1])
            /\ result' = FALSE => ~agent'.initialized]_vars

\* C11 on a pipeline that is not Ready: the order of the steps, the halt at the
\* first failure and the pipeline left not Ready all hold.
C11_FromNotReady ==
    [][CallStep({"initialize"}) /\ ~agent.initialized =>
            /\ C11_Steps(call'.args[1])
            /\ result' = FALSE => ~agent'.initialized]_vars

\* C11 witness: initialize on a pipeline that is not Ready halted at the
\* database connection.
C11_Witness ==
    /\ JustReturned({"initialize"})
    /\ ~call.args[1].connect
    /\ OpNames(log) = <<"MyVanna", "db.connect">>
    /\ result = FALSE
    /\ ~agent.initialized

\* whether the call is one of initialization: the oracle is created, the
\* database is connected, or the startup training begins
IsStartupCall(ev) ==
    \/ ev.op \in {"MyVanna", "db.connect", "connect_to_postgres"}
    \/ ev.op = "train" /\ ev.args = <<"documentation", "combined_prompt">>

\* what a call on a Ready pipeline does if initialization is one-time
C12_Step ==
    agent.initialized =>
        /\ \A i \in 1..Len(log') : ~IsStartupCall(log'[i])
        /\ agent'.initialized

\* C12: initialization is one-time and idempotent per pipeline: once the
\* pipeline is Ready, a further initialize, ask, execute or train_with_examples
\* call does not create the oracle again, reconnect the database or re-run the
\* startup training, and the pipeline stays Ready.
C12_AsStated ==
    [][CallStep({"initialize", "ask", "execute", "train_with_examples"}) => C12_Step]_vars

\* C12 without initialize: ask, execute and train_with_examples look at
\* initialized before they initialize, and leave a Ready pipeline as it is.
C12_GuardedCalls ==
    [][CallStep({"ask", "execute", "train_with_examples"}) => C12_Step]_vars

\* C12 witness: train_with_examples on a Ready pipeline trained with an example
\* and made no call of initialization.
C12_Witness ==
    /\ JustReturned({"train_with_examples"})
    /\ agent.initialized
    /\ log # <<>>
    /\ \A i \in 1..Len(log) : log[i].ready /\ ~IsStartupCall(log[i])
    /\ result = TRUE

\* every step before the training succeeds
ReachesTraining(ie) ==
    /\ agent.config.api_key
    /\ ie.create = PyNone /\ ie.connect /\ ie.connect_to_postgres = PyNone

\* the embeddings directory can be listed
Listable(ie) == ie.embeddings \in {"missing", "empty", "nonempty"}

\* the retrain decision as the claim states it
RetrainStated(ie) == agent.config.force_retrain \/ ie.embeddings # "nonempty"

\* the train calls of a kind
TrainCalls(calls, kind) ==
    SelectSeq(calls, LAMBDA ev : ev.op = "train" /\ ev.args[1] = kind)

\* the steps of a training that meets a failure (the oracle refuses a kind of
\* train call, or the schema cannot be read): the system prompt is trained with
\* once, the schema is read, and the sample queries are trained with
C13_Step(ie) ==
    /\ Len(TrainCalls(log', "documentation")) = 1
    /\ agent._schema_cache = PyNone => Events(log', "db.get_schema_info") # <<>>
    /\ agent.config.load_training_on_startup /\ ie.queries # <<>>
            => TrainCalls(log', "sql") # <<>>

\* C13: a failure inside any training step (system-prompt training, schema DDL
\* training, sample-query loading) is caught and is not fatal: the remaining
\* initialization continues and initialize still returns success with the
\* pipeline Ready.  Whatever the training step meets, the embeddings directory
\* that cannot be listed included, initialize returns success; and after a
\* failing training step the later ones still run.
C13_TrainingFailureNotFatal ==
    [][CallStep({"initialize"})
            /\ ReachesTraining(call'.args[1])
        => /\ result' = TRUE
           /\ agent'.initialized
           /\ Listable(call'.args[1]) /\ RetrainStated(call'.args[1])
                /\ (call'.args[1].train_fail # "none"
                        \/ call'.args[1].train_fetched.t = "raise")
              => C13_Step(call'.args[1])]_vars

\* C13 witness: the oracle refused the system prompt; the schema was read and
\* trained with and a sample query was trained with after it, and initialize
\* returned success.
C13_Witness ==
    /\ JustReturned({"initialize"})
    /\ call.args[1].train_fail = "documentation"
    /\ TrainCalls(log, "documentation") # <<>>
    /\ TrainCalls(log, "ddl") # <<>>
    /\ TrainCalls(log, "sql") # <<>>
    /\ result = TRUE
    /\ agent.initialized

-----------------------------------------------------------------------------
(* Validation: validate_sql called on the texts an oracle may hand back    *)

\* texts that are no SQL statement
SqlShow == PyStr(<<"show", " ", "tables">>)
SqlUnable == PyStr(<<"unable", " ", "to", " ", "generate", " ", "query">>)

\* texts that hold an error indicator and an SQL keyword
SqlSorry == PyStr(<<"sorry", ",", " ", "cannot", " ", "select", " ", "clicks">>)
SqlErrors == PyStr(<<"SELECT", " ", "id", " ", "FROM", " ", "errors">>)

\* SELECT id, conversion_rate FROM experiments
SqlListed ==
    PyStr(<<"SELECT", " ", "id", ",", " ", "conversion_rate", " ", "FROM", " ",
            "experiments">>)

\* SELECT id, (a/b) AS conversion_rate FROM t ORDER BY conversion_rate
SqlAliased ==
    PyStr(<<"SELECT", " ", "id", ",", " ", "(", "a", "/", "b", ")", " ", "AS", " ",
            "conversion_rate", " ", "FROM", " ", "t", " ", "ORDER", " ", "BY", " ",
            "conversion_rate">>)

\* select id from t order by clicks
SqlOrdered ==
    PyStr(<<"select", " ", "id", " ", "from", " ", "t", " ", "order", " ", "by", " ",
            "clicks">>)

\* select revenue
SqlBare == PyStr(<<"select", " ", "revenue">>)

\* select revenue from t where revenue > 0
SqlBoth ==
    PyStr(<<"select", " ", "revenue", " ", "from", " ", "t", " ", "where", " ",
            "revenue", " ", ">", " ", "0">>)

\* select amount revenue from t where revenue > 0
SqlAliasWhere ==
    PyStr(<<"select", " ", "amount", " ", "revenue", " ", "from", " ", "t", " ",
            "where", " ", "revenue", " ", ">", " ", "0">>)

\* select id from t where clicks > 0 and budget > 0
SqlSeveral ==
    PyStr(<<"select", " ", "id", " ", "from", " ", "t", " ", "where", " ", "clicks",
            " ", ">", " ", "0", " ", "and", " ", "budget", " ", ">", " ", "0">>)

\* WITH x AS ( select clicks from t ) select id from x where clicks > 0
SqlCte ==
    PyStr(<<"WITH", " ", "x", " ", "AS", " ", "(", " ", "select", " ", "clicks", " ",
            "from", " ", "t", " ", ")", " ", "select", " ", "id", " ", "from", " ",
            "x", " ", "where", " ", "clicks", " ", ">", " ", "0">>)

\* the head of a CTE query: WITH x AS ( select id from t )
CteHead ==
    <<"WITH", " ", "x", " ", "AS", " ", "(", " ", "select", " ", "id", " ", "from", " ",
      "t", " ", ")", " ">>

\* WITH x AS ( select id from t ) select id from x where ctr > 0
SqlCteCtr ==
    PyStr(CteHead \o <<"select", " ", "id", " ", "from", " ", "x", " ", "where", " ",
                       "ctr", " ", ">", " ", "0">>)

\* WITH x AS ( select id from t ) select id from x where revenue > 0
SqlCteRevenue ==
    PyStr(CteHead \o <<"select", " ", "id", " ", "from", " ", "x", " ", "where", " ",
                       "revenue", " ", ">", " ", "0">>)

\* WITH x AS ( select id from t ) select x.budget from x
SqlCteQualified ==
    PyStr(CteHead \o <<"select", " ", "x", ".", "budget", " ", "from", " ", "x">>)

\* WITH x AS ( select id from t ) select id AS clicks , tags from x
SqlCteAlias ==
    PyStr(CteHead \o <<"select", " ", "id", " ", "AS", " ", "clicks", " ", ",", " ",
                       "tags", " ", "from", " ", "x">>)

\* what validate_sql is called on
SqlInputs ==
    { PyNone, PyNum, PyStr(<<>>), PyStr(<<" ">>), SqlShow, SqlUnable, SqlSorry,
      SqlErrors, SqlPlain, SqlPadded, SqlRevenue, SqlListed, SqlAliased, SqlOrdered,
      SqlBare, SqlBoth, SqlAliasWhere, SqlSeveral, SqlCte, SqlCteCtr, SqlCteRevenue,
      SqlCteQualified, SqlCteAlias }

\* a schema with a column whose name, lower-cased, is on the denylist
SchemaB ==
    PyDict(<< [table |-> "experiments",
               columns |-> <<[column_name |-> <<"id">>],
                             [column_name |-> <<"Revenue">>]>>] >>)

\* what db_connector.get_schema_info answers to the validator's lookup; an
\* answer the call does not read is left at its default
ValidationFetches(a, sql) ==
    IF ReadsSchema(sql) /\ a._schema_cache = PyNone
    THEN Fetches \cup {SchemaB} ELSE {PyDict(<<>>)}

\* the caller of validate_sql has the verdict v, or the exception that escaped
Validates(v, sql, question, fetched, order) ==
    /\ agent' = v.a
    /\ result' = IF v.exc # PyNone THEN v.exc ELSE v.ret
    /\ log' = v.log
    /\ call' = [op |-> "validate_sql", args |-> <<sql, question, fetched, order>>]

\* sql_validator.validate_sql(sql, question)
ValidateSql ==
    /\ CanCall
    /\ \E sql \in SqlInputs, question \in {PyNone, PyStr(<<"q1">>)} :
       \E fetched \in ValidationFetches(agent, sql) :
       \E order \in OrderEnvs(sql) :
        Validates(validate_sql(agent, sql, question, fetched, order),
                  sql, question, fetched, order)
    /\ pc' = "returned"
    /\ ncalls' = ncalls + 1
    /\ UNCHANGED clock

\* the caller goes on and keeps the verdict
KeepVerdict ==
    /\ pc = "returned"
    /\ pc' = "idle"
    /\ UNCHANGED <<agent, clock, call, result, log, ncalls>>

ValidationNext ==
    \/ ValidateSql
    \/ KeepVerdict

Validation == Init /\ [][ValidationNext]_vars

-----------------------------------------------------------------------------
(* Claims about validate_sql                                               *)

\* the reasons validate_sql gives
InvalidStructure == PyStr(<<"Invalid SQL structure">>)
OracleReturnedError == PyStr(<<"AI returned error message instead of SQL">>)
UnknownColumn(name) == PyStr(<<"Column '">> \o name \o <<"' does not exist in schema">>)

\* what validate_sql returns: a pair of a truth value and a reason or None
IsVerdict(ret) ==
    /\ DOMAIN ret = {"is_valid", "error_message"}
    /\ ret.is_valid \in BOOLEAN
    /\ ret.is_valid => ret.error_message = PyNone
    /\ ~ret.is_valid => ret.error_message.t = "str"

\* the text holds one of the keywords select, insert, update, delete
HoldsKeyword(sql) ==
    /\ sql.t = "str"
    /\ \E i \in 1..Len(sql.v) :
        \E keyword \in {"select", "insert", "update", "delete"} :
            HasSub(LowerUnit(sql.v[i]), keyword)

\* the text holds one of the error indicators
HoldsIndicator(sql) ==
    /\ sql.t = "str"
    /\ \E indicator \in error_indicators : Contains(lower(sql.v), indicator)

\* the schema lookup of the call was made and raised
LookupRaised == Events(log', "db.get_schema_info") # <<>> /\ call'.args[3].t = "raise"

\* C15: validate_sql never raises for any sql and question input; when an
\* internal error occurs during validation (for example the schema lookup
\* raises), it returns the valid outcome with no reason (fail-open).
C15_FailOpen ==
    [][CallStep({"validate_sql"}) =>
            /\ IsVerdict(result')
            /\ LookupRaised => result' = Verdict(TRUE, PyNone)]_vars

\* C15 witness: the schema lookup raised on a query that names a column the
\* schema may lack, and the query was allowed.
C15_Witness ==
    /\ JustReturned({"validate_sql"})
    /\ call.args[1] = SqlRevenue
    /\ call.args[3] = Raised("SchemaError")
    /\ Events(log, "db.get_schema_info") # <<>>
    /\ result = Verdict(TRUE, PyNone)

\* C16: every string that contains an error-indicator phrase (such as "unable
\* to generate query") validates as invalid with reason OracleReturnedError,
\* whether or not the string contains the keyword select (or any other SQL
\* keyword).
C16_AsStated ==
    [][CallStep({"validate_sql"}) /\ HoldsIndicator(call'.args[1])
        => result' = Verdict(FALSE, OracleReturnedError)]_vars

\* C16 as the validator has it: the structural check comes first, so the string
\* with an error indicator is invalid with reason OracleReturnedError when it
\* holds an SQL keyword, and with reason InvalidStructure when it holds none.
C16_ErrorEchoAfterStructure ==
    [][CallStep({"validate_sql"}) /\ HoldsIndicator(call'.args[1])
        => IF HoldsKeyword(call'.args[1])
           THEN result' = Verdict(FALSE, OracleReturnedError)
           ELSE result' = Verdict(FALSE, InvalidStructure)]_vars

\* C16 witness: "sorry, cannot select clicks" was rejected as an error message.
C16_Witness ==
    /\ JustReturned({"validate_sql"})
    /\ call.args[1] = SqlSorry
    /\ result = Verdict(FALSE, OracleReturnedError)

\* C17: validate_sql applies its checks in the fixed order structural,
\* error-echo, column-existence and reports the reason of the first check that
\* fails: a string (or non-string, or empty value) containing none of select,
\* insert, update, delete fails with InvalidStructure, and the later checks,
\* including the schema lookup, are not run.
C17_CheckOrder ==
    [][CallStep({"validate_sql"}) =>
        IF ~HoldsKeyword(call'.args[1])
        THEN /\ result' = Verdict(FALSE, InvalidStructure)
             /\ log' = <<>>
             /\ agent' = agent
        ELSE IF HoldsIndicator(call'.args[1])
        THEN /\ result' = Verdict(FALSE, OracleReturnedError)
             /\ log' = <<>>
             /\ agent' = agent
        ELSE /\ result'.error_message \notin {InvalidStructure, OracleReturnedError}
             /\ agent._schema_cache = PyNone
                    => OpNames(log') = <<"db.get_schema_info">>]_vars

\* C17 witness: a text with an error indicator and no SQL keyword failed the
\* structural check, and no schema lookup was made.
C17_Witness ==
    /\ JustReturned({"validate_sql"})
    /\ call.args[1] = SqlUnable
    /\ result = Verdict(FALSE, InvalidStructure)
    /\ log = <<>>
    /\ agent._schema_cache = PyNone

\* the schema snapshot a call reads: the cached schema, or what the database
\* answers when nothing is cached
Snapshot(fetched) ==
    IF agent._schema_cache # PyNone THEN agent._schema_cache ELSE fetched

\* two calls, one after the other, with the same sql, the same schema snapshot
\* and the same iteration order of the validator's sets return the same outcome
C18_SameOutcome ==
    /\ call.op = "validate_sql"
    /\ call'.args[1] = call.args[1]
    /\ call'.args[4] = call.args[4]
    /\ Snapshot(call'.args[3]) = Snapshot(call.args[3])
    => result' = result

\* C18: validate_sql is a pure predicate: a call changes no state of any
\* component (the SQL string, the conversation history and the schema cache are
\* the same before and after), and two calls with the same sql and the same
\* schema snapshot return the same outcome.
C18_AsStated ==
    [][CallStep({"validate_sql"}) => agent' = agent /\ C18_SameOutcome]_vars

\* C18 but for the schema cache: a call leaves the conversation history and
\* every other field as they are and never alters a cached schema; the one
\* effect is that the first schema lookup that succeeds fills the empty cache
\* with what the database answered.  Two calls with the same sql and the same
\* schema snapshot return the same outcome.
C18_PureButCache ==
    [][CallStep({"validate_sql"}) =>
            /\ agent' = [agent EXCEPT !._schema_cache = agent'._schema_cache]
            /\ agent'._schema_cache =
                    IF agent._schema_cache = PyNone
                        /\ Events(log', "db.get_schema_info") # <<>>
                        /\ call'.args[3].t # "raise"
                    THEN call'.args[3]
                    ELSE agent._schema_cache
            /\ agent._schema_cache # PyNone => log' = <<>>
            /\ C18_SameOutcome]_vars

\* C18 witness: a second call with the same sql read the schema the first call
\* had cached and returned the same verdict, a rejection.
C18_Witness ==
    /\ JustReturned({"validate_sql"})
    /\ ncalls = 2
    /\ call.args[1] = SqlRevenue
    /\ agent._schema_cache = SchemaA
    /\ log = <<>>
    /\ result = Verdict(FALSE, UnknownColumn(<<"revenue">>))

\* the query is checked in strict mode: it passes the structural and the
\* error-echo check, it is no CTE query, and the schema is read
StrictlyChecked(sql, fetched) ==
    /\ HoldsKeyword(sql) /\ ~HoldsIndicator(sql)
    /\ ~(Contains(lower(sql.v), <<"with", " ">>) /\ Contains(lower(sql.v), <<"as", " ", "(">>))
    /\ Snapshot(fetched).t = "dict"

\* the lower-cased column names of a schema snapshot
SnapshotColumns(fetched) == { lower(col) : col \in ColumnNames(Snapshot(fetched)) }

\* the entries of the SELECT list: the text between the first select and the
\* first from, cut at the commas
SelectList(s) ==
    IF find(s, <<"select">>, 0) # -1 /\ find(s, <<"from">>, 0) # -1
    THEN split(Slice(s, find(s, <<"select">>, 0) + 1, find(s, <<"from">>, 0)), <<",">>)
    ELSE <<>>

\* the denylisted names the query lists as plain columns of its SELECT list
ListedNames(sql) ==
    { name \in _invalid_patterns :
        \E i \in 1..Len(SelectList(lower(sql.v))) : strip(SelectList(lower(sql.v))[i]) = name }

\* the listed names that are neither schema columns nor SELECT aliases
ListedUnknown(sql, fetched) ==
    { name \in ListedNames(sql) :
        name \notin SnapshotColumns(fetched) /\ name \notin _extract_select_aliases(sql) }

\* C19: a non-CTE query that lists a denylisted name as a plain column in its
\* SELECT list, when that name is neither a schema column nor a SELECT alias
\* (for example "SELECT id, conversion_rate FROM experiments"), validates as
\* invalid with a reason that names that column.
C19_AsStated ==
    [][CallStep({"validate_sql"})
            /\ StrictlyChecked(call'.args[1], call'.args[3])
            /\ ListedUnknown(call'.args[1], call'.args[3]) # {}
        => \E name \in ListedUnknown(call'.args[1], call'.args[3]) :
                result' = Verdict(FALSE, UnknownColumn(name))]_vars

\* the occurrence at pos lies between the first select and the first from
InSelectClause(s, pos) ==
    /\ find(s, <<"select">>, 0) # -1 /\ find(s, <<"from">>, 0) # -1
    /\ find(s, <<"select">>, 0) < pos /\ pos < find(s, <<"from">>, 0)

\* the occurrence at pos lies after the first order by
AfterOrderBy(s, pos) ==
    find(s, <<"order", " ", "by">>, 0) # -1 /\ pos > find(s, <<"order", " ", "by">>, 0)

\* the denylisted names that occur in the query, are no schema columns and no
\* SELECT aliases, and have an occurrence outside the SELECT clause and before
\* or without an order by
UnknownNames(sql, fetched) ==
    { name \in _invalid_patterns :
        /\ name \notin SnapshotColumns(fetched)
        /\ name \notin _extract_select_aliases(sql)
        /\ \E pos \in 0..Len(sql.v) :
            /\ Match(lower(sql.v), pos, name)
            /\ ~InSelectClause(lower(sql.v), pos)
            /\ ~AfterOrderBy(lower(sql.v), pos) }

LenientlyChecked(sql, fetched) ==
    /\ HoldsKeyword(sql) /\ ~HoldsIndicator(sql)
    /\ Contains(lower(sql.v), <<"with", " ">>) /\ Contains(lower(sql.v), <<"as", " ", "(">>)
    /\ Snapshot(fetched).t = "dict"

\* the name occurs qualified as table.column, or directly after where, and, or
\* and before a comparison operator
ColumnReference(s, name) ==
    \E i \in 0..Len(s) :
        \/ QualifiedAt(s, i, name)
        \/ \E keyword \in {"where", "and", "or"} : ComparedAt(s, i, keyword, name)

\* the names of the set checked that are no schema columns and occur as a
\* column reference
ReferencedUnknown(checked, sql, fetched) ==
    { name \in checked :
        name \notin SnapshotColumns(fetched) /\ ColumnReference(lower(sql.v), name) }

\* the lenient rule over a set of checked names, of a call of validate_sql
LenientRule(checked) ==
    CallStep({"validate_sql"}) /\ LenientlyChecked(call'.args[1], call'.args[3])
        => IF ReferencedUnknown(checked, call'.args[1], call'.args[3]) = {}
           THEN result' = Verdict(TRUE, PyNone)
           ELSE \E name \in ReferencedUnknown(checked, call'.args[1], call'.args[3]) :
                    result' = Verdict(FALSE, UnknownColumn(name))

\* C21: for a query containing both 'with ' and 'as (' the validator uses the
\* lenient rule: the names it checks are a subset of the strict-mode denylist,
\* and a checked name that is not a schema column causes failure only if it
\* occurs qualified as table.column or directly after where/and/or before a
\* comparison operator; occurrences only as an alias or bare select item never
\* fail the query.
C21_AsStated == [][LenientRule(strict_invalid_patterns \cap _invalid_patterns)]_vars

\* C21 over the names the lenient mode checks, two of which (ctr, roas) are not
\* on the strict-mode denylist: the rule of column references holds.
C21_LenientRule == [][LenientRule(strict_invalid_patterns)]_vars

\* C21 witness: a CTE query whose only checked names are an alias and a bare
\* select item is valid.
C21_Witness ==
    /\ JustReturned({"validate_sql"})
    /\ call.args[1] = SqlCteAlias
    /\ agent._schema_cache = SchemaA
    /\ result = Verdict(TRUE, PyNone)

-----------------------------------------------------------------------------
(* Schema: the schema manager over the PostgreSQL connector                *)

\* the columns the database reports for a table
MaxColumns == 2

\* a connector whose schema fetch lets a database error escape
DbGetSchemaInfoNoCatch(db) ==
    IF db.tables = PyNone \/ db.raises THEN Raised("DatabaseError")
    ELSE PyDict([ i \in 1..Len(db.tables.v) |->
                    [ table |-> db.tables.v[i],
                      columns |-> IF db.columns[i] # PyNone /\ db.columns[i].v # <<>>
                                  THEN db.columns[i].v ELSE <<>> ] ])

\* PostgreSQLConnector.get_schema_info over what execute_query answers: db.tables
\* is the answer to the tables query (None on a database error), db.columns the
\* answers to the columns queries, in the order of the tables; db.raises tells
\* whether reading the rows raises, which is caught
db_get_schema_info(db) ==
    IF db.tables = PyNone \/ db.tables.v = <<>> THEN PyDict(<<>>)
    ELSE IF db.raises THEN PyDict(<<>>)
    ELSE PyDict([ i \in 1..Len(db.tables.v) |->
                    [ table |-> db.tables.v[i],
                      columns |-> IF db.columns[i] # PyNone /\ db.columns[i].v # <<>>
                                  THEN db.columns[i].v ELSE <<>> ] ])

\* the column records of a table of n columns
ColumnRows(n) == [ j \in 1..n |-> [column_name |-> <<QueryNames[j]>>] ]

\* what execute_query answers to a columns query
ColumnAnswers == { PyNone, DataFrame(<<>>), DataFrame(ColumnRows(MaxColumns)) }

\* what the database answers to the queries of the schema fetch
DbAnswers ==
    { [tables |-> PyNone, columns |-> <<>>, raises |-> FALSE],
      [tables |-> DataFrame(<<>>), columns |-> <<>>, raises |-> FALSE] }
    \cup { [tables |-> DataFrame(<<"experiments">>), columns |-> <<c>>, raises |-> r] :
            c \in ColumnAnswers, r \in BOOLEAN }
    \cup { [tables |-> DataFrame(<<"experiments", "orders">>), columns |-> <<c, d>>,
            raises |-> FALSE] : c \in ColumnAnswers, d \in ColumnAnswers }

\* a Python set
PySet(elements) == [t |-> "set", v |-> elements]

\* the caller of the schema manager has what the call handed back, or the
\* exception that escaped
HandsBack(out, op, db) ==
    /\ agent' = out.a
    /\ result' = IF out.exc # PyNone THEN out.exc
                  ELSE IF op = "get_all_column_names" THEN PySet(out.ret)
                  ELSE out.ret
    /\ log' = out.log
    /\ call' = [op |-> op, args |-> <<db>>]

\* schema_manager.get_schema_info()
GetSchemaInfo ==
    /\ CanCall
    /\ \E db \in DbAnswers :
        HandsBack(get_schema_info(agent, db_get_schema_info(db)), "get_schema_info", db)
    /\ pc' = "returned"
    /\ ncalls' = ncalls + 1
    /\ UNCHANGED clock

\* schema_manager.get_all_column_names()
GetAllColumnNames ==
    /\ CanCall
    /\ \E db \in DbAnswers :
        HandsBack(get_all_column_names(agent, db_get_schema_info(db)),
                  "get_all_column_names", db)
    /\ pc' = "returned"
    /\ ncalls' = ncalls + 1
    /\ UNCHANGED clock

SchemaNext ==
    \/ GetSchemaInfo
    \/ GetAllColumnNames
    \/ KeepVerdict

Schema == Init /\ [][SchemaNext]_vars

-----------------------------------------------------------------------------
(* Claims about the schema snapshot                                        *)

SchemaOps == {"get_schema_info", "get_all_column_names"}

\* the schema fetch failed: the tables query met a database error, or reading
\* its rows raised
FetchFailed(db) == db.tables = PyNone \/ (db.tables.v # <<>> /\ db.raises)

\* what a call of the schema manager hands back for a snapshot
HandedBack(op, snapshot) ==
    IF op = "get_schema_info" THEN snapshot ELSE PySet(ColumnNames(snapshot))

\* C22: the schema snapshot is memoized and immutable: after the first
\* successful fetch, every later get_schema_info / get_all_column_names call
\* on the same SchemaManager returns the same snapshot and makes no further
\* call to the database introspector; a failed fetch yields an empty snapshot
\* and never raises to the caller.
C22_Memoized ==
    [][CallStep(SchemaOps) =>
            /\ result'.t # "raise"
            /\ agent'._schema_cache.t = "dict"
            /\ result' = HandedBack(call'.op, agent'._schema_cache)
            /\ agent._schema_cache # PyNone => log' = <<>> /\ agent' = agent
            /\ agent._schema_cache = PyNone =>
                /\ OpNames(log') = <<"db.get_schema_info">>
                /\ FetchFailed(call'.args[1]) => agent'._schema_cache = PyDict(<<>>)]_vars

\* C22 witness: with a snapshot of one table fetched before, the column names
\* were handed back from it and the database was not asked.
C22_Witness ==
    /\ JustReturned({"get_all_column_names"})
    /\ ncalls = 2
    /\ log = <<>>
    /\ Len(agent._schema_cache.v) = 1
    /\ result = PySet(ColumnNames(agent._schema_cache))
    /\ result.v # {}

-----------------------------------------------------------------------------
(* Claims about running the SQL                                            *)

\* the calls of the database executor made by the request
Executions == Events(log', "db.execute_query")

\* C23: when execute's ask step succeeds and the database returns zero rows
\* for the SQL, execute returns an empty result sequence with success=true and
\* no error field.
C23_ZeroRows ==
    [][CallStep({"execute"}) /\ Executions # <<>> /\ Executions[1].ret = DataFrame(<<>>)
        => /\ result'.results = <<>>
           /\ result'.success = TRUE
           /\ "error" \notin DOMAIN result'
           /\ PyStr(strip(result'.sql.v)) = Executions[1].args[1]]_vars

\* C23 witness: the SQL ran and the database returned no rows.
C23_Witness ==
    /\ JustReturned({"execute"})
    /\ Events(log, "db.execute_query") # <<>>
    /\ Events(log, "db.execute_query")[1].ret = DataFrame(<<>>)
    /\ result.results = <<>>
    /\ result.success = TRUE

\* the executor failed: it raised, or it reported a database error by
\* returning None
ExecutorFailed ==
    Executions # <<>> /\ (Executions[1].ret.t = "raise" \/ Executions[1].ret = PyNone)

\* C24: whenever running the SQL against the database fails (the executor
\* raises or reports a database error), execute returns the ask result
\* (question and SQL) augmented with an error field and success=false.
C24_AsStated ==
    [][CallStep({"execute"}) /\ ExecutorFailed
        => /\ "error" \in DOMAIN result'
           /\ result'.success = FALSE
           /\ result'.question = call'.args[1]
           /\ PyStr(strip(result'.sql.v)) = Executions[1].args[1]]_vars

\* C24 for an executor that raises: the ask result comes back with the text of
\* the exception as its error and success=false.
C24_ExecutorRaises ==
    [][CallStep({"execute"}) /\ Executions # <<>> /\ Executions[1].ret.t = "raise"
        => /\ "error" \in DOMAIN result'
           /\ result'.error = PyStr(Executions[1].ret.v)
           /\ result'.success = FALSE
           /\ result'.question = call'.args[1]
           /\ PyStr(strip(result'.sql.v)) = Executions[1].args[1]]_vars

-----------------------------------------------------------------------------
(* The sessions of the UI.  Here agent is the process: VANNA_CONFIG, the    *)
(* VannaAgent objects built so far, and st.session_state.vanna_agent of     *)
(* each session, which is None or a reference to one of the objects.  A    *)
(* request is a handler of the UI: it asks get_vanna_agent for the          *)
(* session's agent and calls the agent when it got one.                     *)

MaxRequests == 3

SessionNames == {"A", "B"}

\* a reference to the i-th object built
Ref(i) == [t |-> "ref", v |-> i]

\* the process before any session has got an agent
Process(config) ==
    [ config |-> config,
      objects |-> <<>>,
      session_state |-> [s \in SessionNames |-> PyNone] ]

\* the object a session's reference names
Pipeline(st, ref) == st.objects[ref.v]

\* get_vanna_agent from agent.initialize() on: i is what initialize returned
GetInitialized(st, session, i) ==
    IF ~i.ret
    THEN [st |-> st, ret |-> PyNone, log |-> i.log]
    ELSE [ st |-> [st EXCEPT !.objects = Append(@, i.a),
                             !.session_state[session] = Ref(Len(st.objects) + 1)],
           ret |-> Ref(Len(st.objects) + 1),
           log |-> i.log ]

\* a get_vanna_agent that keeps one agent for the whole process
GetVannaAgentShared(st, session, ie) ==
    IF \E s \in SessionNames : st.session_state[s] # PyNone
    THEN [ st |-> [st EXCEPT !.session_state[session] =
                        st.session_state[CHOOSE s \in SessionNames :
                                            st.session_state[s] # PyNone]],
           ret |-> st.session_state[CHOOSE s \in SessionNames :
                                        st.session_state[s] # PyNone],
           log |-> <<>> ]
    ELSE GetInitialized(st, session, initialize(VannaAgent(st.config), ie))

\* get_vanna_agent; ie is what the collaborators answer during initialize
get_vanna_agent(st, session, ie) ==
    IF st.session_state[session] # PyNone
    THEN [st |-> st, ret |-> st.session_state[session], log |-> <<>>]
    ELSE GetInitialized(st, session, initialize(VannaAgent(st.config), ie))

\* what the collaborators answer to a session's request
SessionInits(st, session) ==
    IF st.session_state[session] # PyNone THEN {DefaultInit}
    ELSE StartupEnvs(VannaAgent(st.config))

SessionQuestions == { PyStr(<<"q1">>), PyStr(<<"q2">>) }

SessionEnv(ie, generate, df) ==
    ie @@ [ rewrite |-> PyStr(<<"q3">>), generate |-> generate, fetched |-> SchemaA,
            order |-> Order1, execute_query |-> df ]

SessionConversations == { SavedConversation(1), IrregularConversation }

SessionsInit ==
    /\ agent \in { Process(config) : config \in PipelineConfigs }
    /\ clock = 0
    /\ call = NoCall
    /\ result = PyNone
    /\ log = <<>>
    /\ pc = "idle"
    /\ ncalls = 0

\* the handler found no agent
NoAgent(got) ==
    /\ agent' = got.st
    /\ result' = PyNone
    /\ log' = got.log
    /\ UNCHANGED clock

\* the handler's call on the agent returned out
Stores(got, out) ==
    /\ agent' = [got.st EXCEPT !.objects[got.ret.v] = out.a]
    /\ clock' = out.now
    /\ result' = out.ret
    /\ log' = got.log \o out.log

\* the handler's call on the agent changed the agent into a
Keeps(got, a) ==
    /\ agent' = [got.st EXCEPT !.objects[got.ret.v] = a]
    /\ result' = PyNone
    /\ log' = got.log
    /\ UNCHANGED clock

Asks(got, question, use_conversation_context, env) ==
    IF got.ret = PyNone THEN NoAgent(got)
    ELSE Stores(got, ask(Pipeline(got.st, got.ret), question,
                         use_conversation_context, env, clock))

Executes(got, question, use_conversation_context, env) ==
    IF got.ret = PyNone THEN NoAgent(got)
    ELSE Stores(got, execute(Pipeline(got.st, got.ret), question,
                             use_conversation_context, env, clock))

Clears(got) ==
    IF got.ret = PyNone THEN NoAgent(got)
    ELSE Keeps(got, clear_conversation(Pipeline(got.st, got.ret)))

Loaded(got, out) ==
    /\ agent' = [got.st EXCEPT !.objects[got.ret.v] = out.a]
    /\ clock' = out.now
    /\ result' = PyNone
    /\ log' = got.log

Loads(got, ui) ==
    IF got.ret = PyNone THEN NoAgent(got)
    ELSE Loaded(got, load_conversation(Pipeline(got.st, got.ret), ui, clock))

Got(got) ==
    /\ agent' = got.st
    /\ result' = got.ret
    /\ log' = got.log
    /\ UNCHANGED clock

\* main: get_vanna_agent() at the start of a run of the script
SessionGetVannaAgent ==
    /\ pc = "idle"
    /\ \E session \in SessionNames :
       \E ie \in SessionInits(agent, session) :
        /\ Got(get_vanna_agent(agent, session, ie))
        /\ call' = [op |-> "get_vanna_agent", args |-> <<>>, session |-> session]
    /\ pc' = "returned"
    /\ UNCHANGED ncalls

\* a request may begin
CanRequest == pc = "idle" /\ ncalls < MaxRequests

\* generate_sql_cached: get_vanna_agent(), then agent.ask
SessionAsk ==
    /\ CanRequest
    /\ \E session \in SessionNames :
       \E question \in SessionQuestions, use_conversation_context \in BOOLEAN :
       \E ie \in SessionInits(agent, session) :
       \E generate \in {SqlPlain, PyNone} :
        /\ Asks(get_vanna_agent(agent, session, ie), question,
                use_conversation_context, SessionEnv(ie, generate, PyNone))
        /\ call' = [ op |-> "ask", args |-> <<question, use_conversation_context>>,
                     session |-> session ]
    /\ pc' = "returned"
    /\ ncalls' = ncalls + 1

\* get_vanna_agent(), then agent.execute
SessionExecute ==
    /\ CanRequest
    /\ \E session \in SessionNames :
       \E question \in SessionQuestions, use_conversation_context \in BOOLEAN :
       \E ie \in SessionInits(agent, session) :
       \E df \in {DataFrame(<<"row1">>), PyNone} :
        /\ Executes(get_vanna_agent(agent, session, ie), question,
                    use_conversation_context, SessionEnv(ie, SqlPlain, df))
        /\ call' = [ op |-> "execute", args |-> <<question, use_conversation_context>>,
                     session |-> session ]
    /\ pc' = "returned"
    /\ ncalls' = ncalls + 1

\* clear_conversation and start_new_conversation of the UI: get_vanna_agent(),
\* then agent.clear_conversation
SessionClear ==
    /\ CanRequest
    /\ \E session \in SessionNames :
       \E ie \in SessionInits(agent, session) :
        /\ Clears(get_vanna_agent(agent, session, ie))
        /\ call' = [op |-> "clear_conversation", args |-> <<>>, session |-> session]
    /\ pc' = "returned"
    /\ ncalls' = ncalls + 1

\* load_conversation of the UI: get_vanna_agent(), then the history is rebuilt
SessionLoad ==
    /\ CanRequest
    /\ \E session \in SessionNames :
       \E ie \in SessionInits(agent, session) :
       \E ui \in SessionConversations :
        /\ Loads(get_vanna_agent(agent, session, ie), ui)
        /\ call' = [op |-> "load_conversation", args |-> <<ui>>, session |-> session]
    /\ pc' = "returned"
    /\ ncalls' = ncalls + 1

SessionsNext ==
    \/ SessionGetVannaAgent
    \/ SessionAsk
    \/ SessionExecute
    \/ SessionClear
    \/ SessionLoad
    \/ Return

Sessions == SessionsInit /\ [][SessionsNext]_vars

-----------------------------------------------------------------------------
(* Claims about the sessions *)

\* whether a session holds a pipeline
Holds(st, s) == st.session_state[s] # PyNone

\* what a session's requests go by: its conversation history and the last
\* question its rewrite step would use
Conversation(st, s) ==
    [ history |-> Pipeline(st, st.session_state[s]).conversation_history,
      last_question |-> _get_last_question(Pipeline(st, st.session_state[s])) ]

\* a request of one session leaves another session t as it was
Untouched(t) ==
    /\ agent'.session_state[t] = agent.session_state[t]
    /\ Holds(agent, t) => Conversation(agent', t) = Conversation(agent, t)

\* a session that holds a pipeline keeps it, and get_vanna_agent returns it
\* without building or initializing anything
SamePipeline(s) ==
    Holds(agent, s) =>
        /\ agent'.session_state[s] = agent.session_state[s]
        /\ agent'.objects[agent.session_state[s].v].config = agent.objects[agent.session_state[s].v].config
        /\ Len(agent'.objects) = Len(agent.objects)
        /\ call'.op = "get_vanna_agent" =>
                /\ result' = agent.session_state[s]
                /\ agent' = agent
                /\ log' = <<>>

\* no two sessions hold the same pipeline
OwnPipelines(st) ==
    \A s, t \in SessionNames :
        Holds(st, s) /\ Holds(st, t) /\ s # t => st.session_state[s] # st.session_state[t]

\* C25: each session owns its own pipeline and conversation history: no ask,
\* execute, clear or load of one session changes another session's history or
\* the last question its rewrite step uses, and get_vanna_agent returns the
\* same pipeline for every call within one session
C25_SessionIsolation ==
    [][ pc = "idle" /\ pc' = "returned" =>
            /\ \A t \in SessionNames \ {call'.session} : Untouched(t)
            /\ SamePipeline(call'.session)
            /\ OwnPipelines(agent') ]_vars

\* session A has asked and its turn is in its history, while session B, which
\* asked before, still has the history of its own turn
C25_Witness ==
    /\ pc = "returned" /\ call.op = "ask" /\ call.session = "A"
    /\ "error" \notin DOMAIN result
    /\ Holds(agent, "A") /\ Holds(agent, "B")
    /\ Len(Conversation(agent, "A").history) = 1
    /\ Len(Conversation(agent, "B").history) = 1
    /\ Conversation(agent, "A").last_question # Conversation(agent, "B").last_question

-----------------------------------------------------------------------------
(* Claims about what initialization feeds to the oracle *)

\* the train calls of a step that fed a question/SQL pair, and those that fed DDL
PairsFed == SelectSeq(log', LAMBDA ev : ev.op = "train" /\ ev.args[1] = "sql")
DdlFed == SelectSeq(log', LAMBDA ev : ev.op = "train" /\ ev.args[1] = "ddl")

\* whether a question holds one of the designated keywords
HoldsDomainKeyword(question) ==
    \E keyword \in critical_keywords : Contains(lower(question), keyword)

\* the pairs the training source yielded to an initialize
Yielded == call'.args[1].queries

\* C26: during initialization at most 10 sample pairs are fed to train, each a
\* pair of the training source whose question holds a domain keyword, however
\* many pairs the source yields; DDL is fed only for core tables
C26_CriticalTraining ==
    [][ CallStep({"initialize"}) =>
            /\ Len(PairsFed) <= 10
            /\ \A i \in 1..Len(PairsFed) :
                /\ HoldsDomainKeyword(PairsFed[i].args[2])
                /\ \E k \in 1..Len(Yielded) :
                    /\ Yielded[k].question = PairsFed[i].args[2]
                    /\ Yielded[k].sql = PairsFed[i].args[3]
            /\ \A i \in 1..Len(DdlFed) : DdlFed[i].args[2] \in core_tables ]_vars

\* an initialize whose training source yielded more than 10 keyword pairs and a
\* pair without keyword, and whose schema has a table outside the core tables:
\* 10 pairs and the DDL of one table were fed
C26_Witness ==
    /\ pc = "returned" /\ call.op = "initialize" /\ result = TRUE
    /\ Cardinality({ k \in 1..Len(call.args[1].queries) :
                        HoldsDomainKeyword(call.args[1].queries[k].question) }) > 10
    /\ \E k \in 1..Len(call.args[1].queries) :
            ~HoldsDomainKeyword(call.args[1].queries[k].question)
    /\ call.args[1].train_fetched = SchemaA
    /\ Len(SelectSeq(log, LAMBDA ev : ev.op = "train" /\ ev.args[1] = "sql")) = 10
    /\ Len(SelectSeq(log, LAMBDA ev : ev.op = "train" /\ ev.args[1] = "ddl")) = 1

-----------------------------------------------------------------------------
(* One conversation: the agent's history is added to, cleared and           *)
(* summarized, and questions are asked against it                          *)

MaxTurns == 3

\* a call on the agent may begin
CanTurn == pc = "idle" /\ ncalls < MaxTurns

\* what the collaborators answer to a question of the conversation
TurnEnv(generate) ==
    DefaultInit @@ [ rewrite |-> PyStr(<<"q3">>), generate |-> generate,
                     fetched |-> SchemaA, order |-> Order1 ]

\* agent.ask(question, use_conversation_context)
TurnAsk ==
    /\ CanTurn
    /\ \E question \in {PyStr(<<"q1">>), PyStr(<<" ">>)} :
       \E use_conversation_context \in BOOLEAN :
       \E generate \in {SqlPlain, PyNone} :
        /\ Deliver(ask(agent, question, use_conversation_context, TurnEnv(generate), clock))
        /\ call' = [op |-> "ask", args |-> <<question, use_conversation_context>>]
    /\ pc' = "returned"
    /\ ncalls' = ncalls + 1

\* agent._add_to_conversation_history(entry)
TurnAdd ==
    /\ CanTurn
    /\ \E entry \in HistoryEntries :
        /\ agent' = _add_to_conversation_history(agent, entry, clock)
        /\ call' = [op |-> "_add_to_conversation_history", args |-> <<entry>>]
    /\ clock' = clock + 1
    /\ result' = PyNone
    /\ log' = <<>>
    /\ pc' = "returned"
    /\ ncalls' = ncalls + 1

\* agent.clear_conversation()
TurnClear ==
    /\ CanTurn
    /\ agent' = clear_conversation(agent)
    /\ call' = [op |-> "clear_conversation", args |-> <<>>]
    /\ result' = PyNone
    /\ log' = <<>>
    /\ pc' = "returned"
    /\ ncalls' = ncalls + 1
    /\ UNCHANGED clock

\* agent.get_conversation_summary()
GetConversationSummary ==
    /\ pc = "idle"
    /\ result' = get_conversation_summary(agent)
    /\ call' = [op |-> "get_conversation_summary", args |-> <<>>]
    /\ log' = <<>>
    /\ pc' = "returned"
    /\ UNCHANGED <<agent, clock, ncalls>>

ConversationNext ==
    \/ TurnAsk
    \/ TurnAdd
    \/ TurnClear
    \/ GetConversationSummary
    \/ Return

ConversationSpec == Init /\ [][ConversationNext]_vars

-----------------------------------------------------------------------------
(* Claims about a cleared conversation *)

\* the positions of a history that hold an entry of type question
QuestionEntries(h) == { i \in 1..Len(h) : Get(h[i], "type") = PyStr(<<"question">>) }

\* what the claim gives for a history h: the summary and the last question
EmptySummary == [total_questions |-> 0, last_question_time |-> PyNone]

\* C27: after clear_conversation the history is empty, the summary reports 0
\* questions and no last timestamp, _get_last_question returns None, and an ask
\* with context on an empty history calls no rewrite and sends the original
\* question to generate; the summary's total is the number of question entries
\* in the history
C27_ClearedConversation ==
    [][ /\ CallStep({"clear_conversation"}) =>
            /\ agent'.conversation_history = <<>>
            /\ _get_last_question(agent') = PyNone
            /\ get_conversation_summary(agent') = EmptySummary
        /\ CallStep({"get_conversation_summary"}) =>
            /\ result'.total_questions = Cardinality(QuestionEntries(agent.conversation_history))
            /\ agent.conversation_history = <<>> => result' = EmptySummary
        /\ CallStep({"ask"}) /\ call'.args[2] /\ agent.conversation_history = <<>> =>
            /\ Events(log', "generate_rewritten_question") = <<>>
            /\ \A i \in 1..Len(Events(log', "generate_sql")) :
                    Events(log', "generate_sql")[i].args = <<call'.args[1]>> ]_vars

\* a question asked with context after the history, which had held an entry,
\* was cleared: no rewrite was called, generate got the original question, and
\* the history holds the new turn only
C27_Witness ==
    /\ pc = "returned" /\ call.op = "ask" /\ call.args[2]
    /\ "error" \notin DOMAIN result
    /\ Events(log, "generate_rewritten_question") = <<>>
    /\ Len(Events(log, "generate_sql")) = 1
    /\ Events(log, "generate_sql")[1].args = <<call.args[1]>>
    /\ Len(agent.conversation_history) = 1
    /\ agent.conversation_history[1].timestamp.v[1] >= 1

-----------------------------------------------------------------------------
(* Claims about what execute hands to the database *)

\* the calls of a request on the oracle's generation, the validator and the
\* database executor
Generations == Events(log', "generate_sql")
Validations == Events(log', "validate_sql")
Runs == Events(log', "db.execute_query")

\* whether the request's generation handed back a text
Generated == Len(Generations) = 1 /\ Generations[1].ret.t = "str" /\ Generations[1].ret.v # <<>>

\* whether the validator accepted the text the oracle generated in this request
Accepted ==
    /\ Generated
    /\ Len(Validations) = 1
    /\ Validations[1].args[1] = Generations[1].ret
    /\ Validations[1].ret.is_valid

\* C28: execute calls the database executor at most once per request, and only
\* with the trimmed SQL the oracle generated in this request and validate_sql
\* accepted; when the question is invalid, generation fails or validation
\* rejects the SQL, the executor is not called
C28_RunsAcceptedSql ==
    [][ CallStep({"execute"}) =>
            /\ Len(Runs) <= 1
            /\ Runs # <<>> =>
                /\ Accepted
                /\ Runs[1].args = <<PyStr(strip(Generations[1].ret.v))>>
            /\ ~_validate_question(call'.args[1]) => Runs = <<>>
            /\ ~Generated => Runs = <<>>
            /\ (Validations # <<>> /\ ~Validations[1].ret.is_valid) => Runs = <<>> ]_vars

\* an execute whose oracle generated a padded SQL: the validator accepted it and
\* the executor was called once, with the trimmed text
C28_Witness ==
    /\ pc = "returned" /\ call.op = "execute"
    /\ Len(Events(log, "generate_sql")) = 1
    /\ Events(log, "generate_sql")[1].ret = SqlPadded
    /\ Len(Events(log, "validate_sql")) = 1
    /\ Events(log, "validate_sql")[1].ret.is_valid
    /\ Len(Events(log, "db.execute_query")) = 1
    /\ Events(log, "db.execute_query")[1].args = <<PyStr(strip(SqlPadded.v))>>
    /\ strip(SqlPadded.v) # SqlPadded.v
    /\ result.success

-----------------------------------------------------------------------------
(* Claims about the turn of a request whose SQL failed to execute *)

\* the newest entry of the history after the step
NewestTurn == agent'.conversation_history[Len(agent'.conversation_history)]

\* whether the request's call of the database executor failed
RunFailed == Runs # <<>> /\ (Runs[1].ret = PyNone \/ Runs[1].ret.t = "raise")

\* C29: execute appends the turn before the database call: when ask succeeds
\* and the execution fails, the turn stays in the history, and a following
\* request with context is rewritten against the last question of the history,
\* whether or not its SQL ran
C29_FailedTurnStays ==
    [][ /\ CallStep({"execute"}) /\ RunFailed =>
            /\ agent'.conversation_history # <<>>
            /\ NewestTurn.original_question = call'.args[1]
            /\ NewestTurn.sql = Generations[1].ret
            /\ NewestTurn.timestamp = PyTime(clock)
            /\ NewestTurn.processed_question = Generations[1].args[1]
            /\ _get_last_question(agent') = Generations[1].args[1]
        /\ CallStep({"ask", "execute"}) /\ call'.args[2] /\ Generations # <<>>
                /\ Truthy(_get_last_question(agent)) =>
            /\ Len(Events(log', "generate_rewritten_question")) = 1
            /\ Events(log', "generate_rewritten_question")[1].args
                    = <<_get_last_question(agent), call'.args[1]>> ]_vars

\* an execute whose ask succeeded and whose database call failed: the turn of
\* the failed SQL is the newest of the history and the next rewrite would use it
C29_Witness ==
    /\ pc = "returned" /\ call.op = "execute"
    /\ Len(Events(log, "db.execute_query")) = 1
    /\ Events(log, "db.execute_query")[1].ret = PyNone
    /\ ~result.success
    /\ Len(agent.conversation_history) = 1
    /\ PyStr(strip(agent.conversation_history[1].sql.v))
            = Events(log, "db.execute_query")[1].args[1]
    /\ _get_last_question(agent) = call.args[1]

-----------------------------------------------------------------------------
(* Claims about an empty schema snapshot *)

EmptySnapshot == PyDict(<<>>)

\* the denylisted names of a query that are no SELECT aliases and occur outside
\* the SELECT clause and before or without an order by
Flaggable(sql) ==
    { name \in _invalid_patterns :
        /\ name \notin _extract_select_aliases(sql)
        /\ \E pos \in 0..Len(sql.v) :
            /\ Match(lower(sql.v), pos, name)
            /\ ~InSelectClause(lower(sql.v), pos)
            /\ ~AfterOrderBy(lower(sql.v), pos) }

\* the names the lenient mode checks that a query uses as a column reference
Referenced(sql) ==
    { name \in strict_invalid_patterns : ColumnReference(lower(sql.v), name) }

\* the verdict of a call that takes no checked name for a schema column
NoNameIsColumn(sql, names) ==
    IF names = {} THEN result' = Verdict(TRUE, PyNone)
    ELSE \E name \in names : result' = Verdict(FALSE, UnknownColumn(name))

\* C30: the first schema fetch is cached even when it failed or found no
\* tables: once the snapshot is empty no later call asks the database again,
\* and every later validation takes every denylisted name for a name that is no
\* schema column
C30_EmptySnapshotKept ==
    [][ CallStep({"validate_sql"}) =>
            /\ ( /\ agent._schema_cache = PyNone
                 /\ Events(log', "db.get_schema_info") # <<>>
                 /\ call'.args[3] = EmptySnapshot )
                    => agent'._schema_cache = EmptySnapshot
            /\ agent._schema_cache = EmptySnapshot =>
                /\ Events(log', "db.get_schema_info") = <<>>
                /\ agent'._schema_cache = EmptySnapshot
                /\ StrictlyChecked(call'.args[1], call'.args[3]) =>
                        NoNameIsColumn(call'.args[1], Flaggable(call'.args[1]))
                /\ LenientlyChecked(call'.args[1], call'.args[3]) =>
                        NoNameIsColumn(call'.args[1], Referenced(call'.args[1])) ]_vars

\* a second validation on a pipeline whose first schema fetch found nothing:
\* the database was not asked again and revenue, which a schema with that
\* column would accept, is reported as unknown
C30_Witness ==
    /\ JustReturned({"validate_sql"})
    /\ ncalls = 2
    /\ call.args[1] = SqlRevenue
    /\ agent._schema_cache = EmptySnapshot
    /\ log = <<>>
    /\ result = Verdict(FALSE, UnknownColumn(<<"revenue">>))
    /\ validate_sql([agent EXCEPT !._schema_cache = PyNone], SqlRevenue, call.args[2],
                    SchemaB, call.args[4]).ret = Verdict(TRUE, PyNone)

====
